---- MODULE Spec2Model ----
(***************************************************************************)
(* Drifters (distingNT granular sample explorer), src/drifters.cpp.        *)
(*                                                                         *)
(* One iteration of the per-sample loop of step() is one "tick".  The loop *)
(* body has two parts that share no mutable state: the movement of the     *)
(* drifters (position, velocity, driftDirection; lines 896-980) and the    *)
(* grain scheduler, pool and renderer (clock detection, timeSinceGrain,    *)
(* nextGrainTime, grains[]; lines 879-894 and 982-1162).  The scheduler    *)
(* never reads a drifter's velocity or direction and the movement never    *)
(* reads a timer or a grain, so each part is modelled by its own action    *)
(* (Tick, DriftTick) and checked under its own specification.              *)
(*                                                                         *)
(* Numbers.  Time is counted in ticks (dt = 1 tick).  The envelope phase   *)
(* is an integer with PhaseOne standing for 1.0f.  Parameters v[] keep     *)
(* their integer percent values.  Positions are integers in units of       *)
(* 1/PosScale of the sample, velocities in position units per tick.        *)
(* Random draws (randFloat, randFloatBipolar, randExponential) are inputs  *)
(* chosen by \E.                                                           *)
(*                                                                         *)
(* Specifications.  All of them run the same Tick; they differ in the      *)
(* patch the host has loaded (Init) and in the parameters it then turns:   *)
(*   Spec        no clock patched, Density turned        (pool, renderer)  *)
(*   SpecClock   clock patched, Deviation turned, clock                    *)
(*               input assigned and unassigned, one-tick grains (modes)    *)
(*   SpecLocked  clock patched, Deviation 0, longest grains (clock lock)   *)
(* SpecDrift runs DriftTick for the first MaxFrames frames after           *)
(* construction while the host turns Wander.  The other parts of the       *)
(* program have a specification each, over their own variables:            *)
(*   SpecBored   movement with boredom and repulsion                       *)
(*   SpecPeriod, SpecStorm   clock period, entropy storm                   *)
(*   SpecLoad, SpecSelect    sample loading, sample selection              *)
(*   SpecPool    pool allocation and render cap with the band filter on    *)
(*   SpecNorm    output normalization                                      *)
(*   SpecZc      zero-crossing search at grain onset                       *)
(*   SpecLambda  the rate of the exponential draw, in src/drifters.cpp     *)
(*               and in src/drift_engine.cpp                               *)
(*   SpecScale, SpecQuant, SpecPitch   scale conversion, quantization and  *)
(*               the scale-aware pitch, from the scale-quantization plan   *)
(***************************************************************************)
EXTENDS Integers, Sequences, FiniteSets, TLC

(* ------------------------------------------------------------------ *)
(* Sizes.  The source has 4 drifters, 16 grain slots and a render cap  *)
(* of 8 (lines 30-33); the model keeps the structure and checks it at  *)
(* smaller sizes, with the render cap below the pool size as in the    *)
(* source.                                                             *)
(* ------------------------------------------------------------------ *)
kNumDrifters == 2
PoolSize == 2
kMaxTotalGrains == PoolSize
kMaxActiveGrains == 1

(* envelope phase 1.0f in model units *)
PhaseOne == 3
(* intervals randExponential returns, in ticks *)
IntervalValues == {0, 1, 2}
(* timeSinceGrain saturates one above the longest interval: every      *)
(* comparison timeSinceGrain >= nextGrainTime is unaffected            *)
TsgCap == Cardinality(IntervalValues)

Drifters == 0 .. (kNumDrifters - 1)
Slots == 0 .. (kMaxTotalGrains - 1)

(* clock gate threshold of "clockIn > 1.0f", in volts *)
kClockThreshold == 1
(* voltages an assigned clock input is sampled at: at and above the threshold *)
ClockLevels == {kClockThreshold, kClockThreshold + 1}

(* values of the parameters the host may set: Deviation and Density in  *)
(* percent, the clock input as a bus number (0 is "None")              *)
DeviationValues == {0, 50, 100}
DensityValues == {0, 50, 100}
CvClockValues == {0, 1}

(* ------------------------------------------------------------------ *)
(* Drifter movement: sizes and inputs                                  *)
(* ------------------------------------------------------------------ *)
(* 1.0f of sample position in model units: 0.999f is 999 *)
PosScale == 1000
(* hard clamp fmaxf(0.001f, fminf(0.999f, position)) *)
kPosMin == 1
kPosMax == PosScale - kPosMin
(* frames of step() the movement is followed for *)
MaxFrames == 3
(* frames the movement is followed for when nothing pushes the drifters *)
MaxQuietFrames == 22
(* 1.0f of the normalization factor in model units *)
NormOne == 10000
(* the most active slots the render loop can count: the 16 slots of    *)
(* the source's pool (line 32)                                         *)
MaxNormGrains == 16
(* values of smoothNorm the normalization is followed from: 1.0 as     *)
(* constructed, and values between the targets it moves among          *)
NormValues == {NormOne, 9000, 7071, 6500, 5774, 5200}
(* 1.0f of boredom in model units: one tick is one second and adds     *)
(* boredomBuildRate * dt = 0.05                                        *)
BoredomOne == 20
DriftValues == {0, 30}
(* positions of drifter 1 and boredom levels the quiet movement is     *)
(* started from: near drifter 0 on either side, at and around both     *)
(* thresholds, and the constructed position                            *)
NearValues == {200, 210, 249, 250, 251, 252, 260, 290, 299, 300, 310, 400}
BoredomValues == {0, BoredomOne - 1, BoredomOne}
(* ------------------------------------------------------------------ *)
(* Sample loading: sizes and the files on the card                     *)
(* ------------------------------------------------------------------ *)
(* kMaxSampleFrames (48000 * 32 in the source), in frames *)
kMaxSampleFrames == 200
(* "sampleLength < 100": the shortest sample that is played *)
kMinSampleFrames == 100
(* frames the host writes at a time *)
ChunkFrames == 100
Chunks == 0 .. (((kMaxSampleFrames + ChunkFrames - 1) \div ChunkFrames) - 1)
(* read requests the host holds at a time *)
MaxInflight == 2
(* values of the Sample parameter and what NT_getSampleFileInfo reports *)
(* for them: no file, a file too short to play, a playable file longer *)
(* than the buffer                                                     *)
SampleValues == 0 .. 2
FileFrames(sample) == CASE sample = 1 -> 50 [] sample = 2 -> 250 [] OTHER -> 0
FileRate(sample) == IF sample = 2 THEN 44100 ELSE 48000
(* frames of a block as the model follows them *)
Frames == 0 .. 1
(* what the output busses hold before step() runs, and the levels the  *)
(* frame loop writes                                                   *)
BusBefore == 3
SignalValues == {0, 5}

(* 1.0f of entropy and storm level in model units *)
EntropyOne == 20
(* Entropy in percent, as the host may set it *)
EntropyValues == {0, 25, 100}
(* voltages the storm gate and entropy CV inputs are sampled at *)
StormVolts == {0, 5}
EntropyVolts == {-5, 0, 5}
(* longest gap between two clock edges that is followed, in ticks *)
MaxClockPhase == 4
(* largest scale degree converted, up and down *)
MaxDegree == 15
(* Wander in percent, as the host may set it *)
WanderValues == {1, 10, 30}
(* drifter.variation = 0.5f + randFloat * 0.5f, in percent *)
VariationValues == {75}
(* the velocity a tick adds before damping (gravity, repulsion and the *)
(* random walk of lines 934-936), in position units per tick          *)
PushValues == {-32, 0, 32}

VARIABLES
    v,                \* parameter values pThis->v[]
    prevClock,        \* dtc->prevClock
    clockReceived,    \* dtc->clockReceived
    timeSinceGrain,   \* drifters[d].timeSinceGrain, in ticks
    nextGrainTime,    \* drifters[d].nextGrainTime, in ticks
    grains,           \* dtc->grains[]
    pulseOut,         \* dtc->pulseOut
    cvOutPulse,       \* cvOutPulse[frame] written by the last tick
    clockEdge,        \* local clockEdge of the last tick
    shouldTrigger,    \* local shouldTrigger of the last tick, per drifter
    trial,            \* outcome of randFloat(dtc) < deviation in the last tick, per drifter
    slot,             \* slot index g at which the allocation loop of the last tick ended, per drifter
    mixed,            \* the slots whose sample was added to mixL and mixR in the last tick
    position,         \* drifters[d].position
    velocity,         \* drifters[d].velocity
    driftDirection,   \* drifters[d].driftDirection
    variation,        \* drifters[d].variation, in percent
    anchorSmooth,     \* dtc->anchorSmooth
    integrated,       \* drifter.position after line 945 in the last tick, per drifter
    frame,            \* frames processed since construct(), up to the horizon
    boredom,          \* drifters[d].boredom, in units of 1 / BoredomOne
    lastSignificantPos,  \* drifters[d].lastSignificantPos
    repulsion,        \* local repulsion of drifter d in the last tick, in millionths
    degree,           \* argument degree of the last degreeToSemitones call
    scaleIndex,       \* argument scaleIndex of the last degreeToSemitones call
    semitones,        \* value the last degreeToSemitones call returned
    clockPhase,       \* dtc->clockPhase, in ticks
    clockPeriod,      \* dtc->clockPeriod, a fraction num/den of a tick
    stormLevel,       \* dtc->stormLevel, EntropyOne is 1.0f
    entropySmooth,    \* dtc->entropySmooth, EntropyOne is 1.0f
    stormGate,        \* local stormGate of the last tick
    sdMounted,        \* what NT_isSdCardMounted() returns
    inflight,         \* read requests the host has accepted and not completed, oldest first
    cardMounted,      \* pThis->cardMounted
    awaitingCallback, \* pThis->awaitingCallback
    pendingSampleLoad,        \* pThis->pendingSampleLoad
    pendingSampleLength,      \* pThis->pendingSampleLength
    pendingSourceSampleRate,  \* pThis->pendingSourceSampleRate
    sampleLength,     \* dram->sampleLength
    sourceSampleRate, \* pThis->sourceSampleRate
    sampleLoaded,     \* dram->sampleLoaded
    sampleBufferL,    \* dram->sampleBufferL: per chunk, the file whose frames it holds (0: zeros)
    busOut,           \* the four output busses after the last step(), per frame
    lastEvent,        \* the handler that ran last
    wavRequestSample, \* pThis->wavRequest.sample
    stepPc,           \* where step() is: "idle" between blocks, or back from loadSample()
    smoothNorm,       \* dtc->smoothNorm, in units of 1 / NormOne
    activeGrains,     \* local activeGrains of the last tick's render loop
    normFrame,        \* frames the normalization has been followed for
    zcLen,            \* findNearestZeroCrossing: sampleLen
    zcStart,          \* findNearestZeroCrossing: startPos
    zcBuf,            \* which content the sample buffer has
    zcOffset,         \* findNearestZeroCrossing: offset
    zcBestPos,        \* findNearestZeroCrossing: bestPos
    zcBestVal,        \* findNearestZeroCrossing: bestVal
    zcRead,           \* buffer indices read by the last iteration
    zcResult,         \* the value returned, once zcPc is "done"
    zcPc,             \* "idle", "search" or "done"
    lambda,           \* the rate of the last trigger, a fraction num/den; den = 0 is infinite
    lambdaBy,         \* the engine variant that computed it: "none", "drifters", "drift_engine"
    divByZero,        \* the last trigger divided by a zero clockPeriod
    quantIn,          \* quantizePitchToScale: semitones, in units of 1 / PitchOne
    quantScale,       \* quantizePitchToScale: scaleIndex
    quantOut,         \* quantizePitchToScale: the value returned
    quantDone,        \* quantizePitchToScale has returned
    pitchArgs,        \* what the last grain's pitch was computed from
    pitchSemis,       \* pitchSemis of the scale-aware pitch computation
    rawSemis,         \* pitchSemis of the pitch code of src/drifters.cpp
    pitchDone         \* the pitch of the grain has been computed

schedVars == <<prevClock, clockReceived, timeSinceGrain, nextGrainTime, grains,
               pulseOut, cvOutPulse, clockEdge, shouldTrigger, trial, slot, mixed>>
driftVars == <<position, velocity, driftDirection, variation, anchorSmooth,
               integrated, frame, boredom, lastSignificantPos, repulsion>>
scaleVars == <<degree, scaleIndex, semitones>>
clockVars == <<clockPhase, clockPeriod>>
stormVars == <<stormLevel, entropySmooth, stormGate>>
loadVars == <<sdMounted, inflight, cardMounted, awaitingCallback, pendingSampleLoad,
              pendingSampleLength, pendingSourceSampleRate, sampleLength,
              sourceSampleRate, sampleLoaded, sampleBufferL, busOut, lastEvent,
              wavRequestSample, stepPc>>
normVars == <<smoothNorm, activeGrains, normFrame>>
zcVars == <<zcLen, zcStart, zcBuf, zcOffset, zcBestPos, zcBestVal, zcRead, zcResult, zcPc>>
lamVars == <<lambda, lambdaBy, divByZero>>
quantVars == <<quantIn, quantScale, quantOut, quantDone>>
pitchVars == <<pitchArgs, pitchSemis, rawSemis, pitchDone>>
moreVars == <<normVars, zcVars, lamVars, quantVars, pitchVars>>
restVars == <<scaleVars, clockVars, stormVars, loadVars, moreVars>>
vars == <<v, schedVars, driftVars, restVars>>

Min(a, b) == IF a < b THEN a ELSE b
Max(a, b) == IF a > b THEN a ELSE b
Abs(x) == IF x < 0 THEN -x ELSE x

(* ------------------------------------------------------------------ *)
(* Grain pool                                                          *)
(* ------------------------------------------------------------------ *)

(* memset(dtc, 0, ...) *)
(* filter is the state of grain.filterL: 0 as memset leaves it, 1 once *)
(* process() has run on it                                             *)
GrainZero == [active |-> FALSE, phase |-> 0, phaseDelta |-> 0, drifterIndex |-> 0, filter |-> 0]

(* grain.phaseDelta = 1.0f / (densityToSize(density) * sr): the higher  *)
(* the density the shorter the grain.  In model units a grain lasts     *)
(* PhaseOne ticks at Density 0 and one tick at Density 100; in between  *)
(* it steps by 2 and reaches or passes 1.0 as PhaseOne is even or odd.  *)
phaseDeltaOf(density) ==
    IF density >= 100 THEN PhaseOne
    ELSE IF density >= 50 THEN Min(2, PhaseOne) ELSE 1

(* FindFreeSlot with voice stealing: a full pool hands out slot 0 *)
FindFreeSlotSteal(gr) ==
    IF \E g \in Slots : ~gr[g].active
    THEN CHOOSE g \in Slots : ~gr[g].active /\ \A h \in Slots : h < g => gr[h].active
    ELSE 0

(* for (g = 0; g < kMaxTotalGrains; g++) if (!grains[g].active) ... break; *)
(* the index at which the loop ends: the first inactive slot, or         *)
(* kMaxTotalGrains when every slot is active                             *)
FindFreeSlot(gr) ==
    IF \E g \in Slots : ~gr[g].active
    THEN CHOOSE g \in Slots : ~gr[g].active /\ \A h \in Slots : h < g => gr[h].active
    ELSE kMaxTotalGrains

(* the allocation with the commented-out filter reset carried out *)
NewGrainReset(gn, d, density) ==
    [active |-> TRUE, phase |-> 0, phaseDelta |-> phaseDeltaOf(density), drifterIndex |-> d,
     filter |-> 0]

(* body of the allocation, lines 1025-1059: the slot gn configured for *)
(* drifter d; the filter reset is commented out (lines 1053-1055)      *)
NewGrain(gn, d, density) ==
    [gn EXCEPT !.active = TRUE, !.phase = 0, !.phaseDelta = phaseDeltaOf(density),
               !.drifterIndex = d]

(* ------------------------------------------------------------------ *)
(* Grain triggering, one drifter                                       *)
(* ------------------------------------------------------------------ *)

(* Elapsed with the comparison made strict *)
ElapsedStrict(tsg, next) == tsg > next

(* drifter.timeSinceGrain >= drifter.nextGrainTime *)
Elapsed(tsg, next) == tsg >= next

(* ShouldTrigger with Poisson extras left in the clock-locked branch *)
ShouldTriggerExtras(received, edge, deviation, elapsed, trialOk) ==
    IF received /\ deviation < 100
    THEN IF deviation = 0
         THEN edge \/ elapsed
         ELSE IF edge THEN TRUE
              ELSE IF elapsed THEN trialOk ELSE FALSE
    ELSE elapsed

(* ShouldTrigger with the blended branch testing the timer before the  *)
(* clock edge                                                          *)
ShouldTriggerTimerFirst(received, edge, deviation, elapsed, trialOk) ==
    IF received /\ deviation < 100
    THEN IF deviation = 0
         THEN edge
         ELSE IF elapsed THEN (edge \/ trialOk) ELSE FALSE
    ELSE elapsed

(* bool shouldTrigger of lines 985-1008; elapsed is                    *)
(* timeSinceGrain >= nextGrainTime, trialOk is randFloat(dtc) < deviation *)
ShouldTrigger(received, edge, deviation, elapsed, trialOk) ==
    IF received /\ deviation < 100
    THEN IF deviation = 0
         THEN edge
         ELSE IF edge THEN TRUE
              ELSE IF elapsed THEN trialOk ELSE FALSE
    ELSE elapsed

(* PulseAfter with the pulse raised by every trigger, outside the     *)
(* allocation loop                                                     *)
PulseAfterAny(pulse, g) == TRUE

(* dtc->pulseOut after the allocation loop of lines 1023-1061 has ended *)
(* at index g: set inside the loop, at the slot it found               *)
PulseAfter(pulse, g) == IF g < kMaxTotalGrains THEN TRUE ELSE pulse

(* whether line 1002 draws a random number *)
TrialMade(received, edge, deviation, elapsed) ==
    received /\ deviation < 100 /\ deviation # 0 /\ ~edge /\ elapsed

(* TriggerDrifter keeping a dropped trigger due: the timer and the     *)
(* interval are left for the next tick when no slot is free            *)
TriggerDrifterRetry(s, d, received, edge, params) ==
    LET tsg == Min(s.timeSinceGrain[d] + 1, TsgCap)
        elapsed == Elapsed(tsg, s.nextGrainTime[d])
        made == TrialMade(received, edge, params.Deviation, elapsed)
        g == FindFreeSlot(s.grains)
        Triggered(draw, tr) ==
            [s EXCEPT !.timeSinceGrain[d] = IF g < kMaxTotalGrains THEN 0 ELSE tsg,
                      !.nextGrainTime[d] = IF g < kMaxTotalGrains THEN draw ELSE s.nextGrainTime[d],
                      !.grains = IF g < kMaxTotalGrains
                                 THEN [s.grains EXCEPT ![g] = NewGrain(s.grains[g], d, params.Density)]
                                 ELSE s.grains,
                      !.pulseOut = PulseAfter(s.pulseOut, g),
                      !.shouldTrigger[d] = TRUE,
                      !.trial[d] = tr,
                      !.slot[d] = g]
        NotTriggered(tr) ==
            [s EXCEPT !.timeSinceGrain[d] = tsg,
                      !.shouldTrigger[d] = FALSE,
                      !.trial[d] = tr,
                      !.slot[d] = kMaxTotalGrains]
        Outcome(trialOk) ==
            IF ShouldTrigger(received, edge, params.Deviation, elapsed, trialOk)
            THEN {Triggered(draw, IF made THEN "pass" ELSE "none") : draw \in IntervalValues}
            ELSE {NotTriggered(IF made THEN "fail" ELSE "none")}
    IN  IF made THEN Outcome(TRUE) \cup Outcome(FALSE) ELSE Outcome(FALSE)

(* lines 982-1062 for drifter d on the loop state s: the set of loop    *)
(* states the body can leave, one for each outcome of the random draws *)
(* it makes (the trial of line 1002 when it is reached, the interval   *)
(* of line 1020 when the drifter triggers)                             *)
TriggerDrifter(s, d, received, edge, params) ==
    LET tsg == Min(s.timeSinceGrain[d] + 1, TsgCap)
        elapsed == Elapsed(tsg, s.nextGrainTime[d])
        made == TrialMade(received, edge, params.Deviation, elapsed)
        g == FindFreeSlot(s.grains)
        Triggered(draw, tr) ==
            [s EXCEPT !.timeSinceGrain[d] = 0,
                      !.nextGrainTime[d] = draw,
                      !.grains = IF g < kMaxTotalGrains
                                 THEN [s.grains EXCEPT ![g] = NewGrain(s.grains[g], d, params.Density)]
                                 ELSE s.grains,
                      !.pulseOut = PulseAfter(s.pulseOut, g),
                      !.shouldTrigger[d] = TRUE,
                      !.trial[d] = tr,
                      !.slot[d] = g]
        NotTriggered(tr) ==
            [s EXCEPT !.timeSinceGrain[d] = tsg,
                      !.shouldTrigger[d] = FALSE,
                      !.trial[d] = tr,
                      !.slot[d] = kMaxTotalGrains]
        Outcome(trialOk) ==
            IF ShouldTrigger(received, edge, params.Deviation, elapsed, trialOk)
            THEN {Triggered(draw, IF made THEN "pass" ELSE "none") : draw \in IntervalValues}
            ELSE {NotTriggered(IF made THEN "fail" ELSE "none")}
    IN  IF made THEN Outcome(TRUE) \cup Outcome(FALSE) ELSE Outcome(FALSE)

(* for (d = 0; d < kNumDrifters; d++), on a set of loop states *)
RECURSIVE DrifterLoop(_, _, _, _, _)
DrifterLoop(S, d, received, edge, params) ==
    IF d >= kNumDrifters
    THEN S
    ELSE DrifterLoop(UNION {TriggerDrifter(s, d, received, edge, params) : s \in S},
                     d + 1, received, edge, params)

(* ------------------------------------------------------------------ *)
(* Rendering                                                           *)
(* ------------------------------------------------------------------ *)

(* activeGrains after slot g has been visited: the active slots 0..g   *)
ActiveUpTo(gr, g) == Cardinality({h \in Slots : h <= g /\ gr[h].active})

(* lines 1072-1135: a slot is advanced when it is active and not beyond *)
(* the CPU limit                                                        *)
Rendered(gr, g) == gr[g].active /\ ActiveUpTo(gr, g) <= kMaxActiveGrains

(* AdvanceGrain with the end test made strict *)
AdvanceGrainLate(gn) ==
    LET ph == gn.phase + gn.phaseDelta
    IN  [gn EXCEPT !.phase = ph, !.active = ~(ph > PhaseOne)]

(* grain.phase += grain.phaseDelta; if (grain.phase >= 1.0f) grain.active = false *)
AdvanceGrain(gn) ==
    LET ph == gn.phase + gn.phaseDelta
    IN  [gn EXCEPT !.phase = ph, !.active = ~(ph >= PhaseOne)]

(* lines 1101-1106: if (spectrumSep > 0.01f) grain.filterL.process(...) *)
FilterGrain(gn, params) == IF params.Spectrum > 1 THEN [gn EXCEPT !.filter = 1] ELSE gn

(* RenderGrains with the grains beyond the limit advanced but not mixed *)
RenderGrainsAdvanceAll(gr, params) ==
    [g \in Slots |-> IF Rendered(gr, g) THEN AdvanceGrain(FilterGrain(gr[g], params))
                     ELSE IF gr[g].active THEN AdvanceGrain(gr[g]) ELSE gr[g]]

RenderGrains(gr, params) ==
    [g \in Slots |-> IF Rendered(gr, g) THEN AdvanceGrain(FilterGrain(gr[g], params)) ELSE gr[g]]

(* ------------------------------------------------------------------ *)
(* Drifter movement, one drifter                                       *)
(* ------------------------------------------------------------------ *)

(* x * 0.5f for x >= 0, at the model's resolution *)
Half(x) == x \div 2

(* velocity *= 0.995f, rounded to the nearest unit *)
Damp(x) == IF x < 0 THEN -((-x * 995 + 500) \div 1000) ELSE (x * 995 + 500) \div 1000

(* anchorSmooth += (anchorTarget - anchorSmooth) * smoothRate, with     *)
(* anchorTarget = v[kParamAnchor] / 100 and smoothRate = 0.001f        *)
SmoothAnchor(a, params) ==
    LET target == (params.Anchor * PosScale) \div 100
        diff == target - a
    IN  a + (IF diff < 0 THEN -((-diff + 500) \div 1000) ELSE (diff + 500) \div 1000)

(* float anchor = fmaxf(0, fminf(1, dtc->anchorSmooth)) *)
AnchorOf(a) == Max(0, Min(PosScale, a))
(* float wander = pThis->v[kParamWander] / 100.0f *)
WanderOf(params) == (params.Wander * PosScale) \div 100
MinPos(a, params) == AnchorOf(a) - WanderOf(params)
MaxPos(a, params) == AnchorOf(a) + WanderOf(params)

(* drift * variation * driftDirection * dt * 0.05f with the drift       *)
(* smoother at its target v[kParamDrift] / 100 and dt = 1              *)
BaseDrift(params, var, dir) == dir * ((params.Drift * var * 5) \div 1000)

(* if (position < minPos) { reflect; velocity = |velocity| / 2; driftDirection = 1 } *)
BounceLow(st, minPos) ==
    IF st.position < minPos
    THEN [st EXCEPT !.position = minPos + Half(minPos - st.position),
                    !.velocity = Half(Abs(st.velocity)),
                    !.driftDirection = 1]
    ELSE st

(* if (position > maxPos) { reflect; velocity = -|velocity| / 2; driftDirection = -1 } *)
BounceHigh(st, maxPos) ==
    IF st.position > maxPos
    THEN [st EXCEPT !.position = maxPos - Half(st.position - maxPos),
                    !.velocity = -Half(Abs(st.velocity)),
                    !.driftDirection = -1]
    ELSE st

(* drifter.position = fmaxf(0.001f, fminf(0.999f, drifter.position)) *)
HardClamp(st) == [st EXCEPT !.position = Max(kPosMin, Min(kPosMax, st.position))]

(* x * num / den rounded to the nearest unit *)
Scaled(x, num, den) ==
    LET p == x * num
    IN  IF p < 0 THEN -((2 * (-p) + den) \div (2 * den)) ELSE (2 * p + den) \div (2 * den)

(* repulsionThreshold = 0.05f and the 0.001f below which no force is   *)
(* applied, line 920                                                   *)
kRepulsionThreshold == (5 * PosScale) \div 100
kRepulsionMin == PosScale \div 1000

(* line 920: absDiff < repulsionThreshold && absDiff > 0.001f *)
Near(absDiff, params) == absDiff < kRepulsionThreshold /\ absDiff > kRepulsionMin

(* lines 917-925 for one other drifter, in millionths: strength =      *)
(* 0.00001f / absDiff with the sign of diff                            *)
RepulsionFrom(diff, params) ==
    IF Near(Abs(diff), params)
    THEN (IF diff > 0 THEN 1 ELSE -1) * ((10 * PosScale) \div Abs(diff))
    ELSE 0

(* the loop of lines 916-926 over the drifters of S other than d; seen *)
(* holds the positions as the loop reads them                          *)
RECURSIVE RepulsionSum(_, _, _, _)
RepulsionSum(S, d, seen, params) ==
    IF S = {} THEN 0
    ELSE LET other == CHOOSE x \in S : TRUE
             rest == RepulsionSum(S \ {other}, d, seen, params)
         IN  IF other = d THEN rest ELSE rest + RepulsionFrom(seen[d] - seen[other], params)

(* the scale factor without the 1.05 *)
BoredomScalePlain(rep, b) == Scaled(rep, BoredomOne - b, BoredomOne)

(* line 928: repulsion *= (1.0f - drifter.boredom * 1.05f) *)
BoredomScale(rep, b) == Scaled(rep, 100 * BoredomOne - 105 * b, 100 * BoredomOne)

(* boredomMovementThreshold = 0.03f and boredomBuildRate * dt with     *)
(* boredomBuildRate = 0.05f, lines 968-969                             *)
kBoredomMovementThreshold == (3 * PosScale) \div 100
BoredomBuild == (5 * BoredomOne) \div 100

(* the boredom update without the cap at 1.0f *)
UpdateBoredomNoCap(pos, home, b) ==
    IF Abs(pos - home) > kBoredomMovementThreshold
    THEN [boredom |-> 0, lastSignificantPos |-> pos]
    ELSE [boredom |-> b + BoredomBuild, lastSignificantPos |-> home]

(* lines 970-978: the boredom and the home position after a tick that  *)
(* ends at pos                                                         *)
UpdateBoredom(pos, home, b) ==
    IF Abs(pos - home) > kBoredomMovementThreshold
    THEN [boredom |-> 0, lastSignificantPos |-> pos]
    ELSE [boredom |-> Min(BoredomOne, b + BoredomBuild), lastSignificantPos |-> home]

(* lines 906-978 for drifter d: seen holds the positions as this       *)
(* iteration reads them, push is the gravity and random walk added to  *)
(* the velocity and a the smoothed anchor of this tick                 *)
MoveDrifter(d, push, seen, a, params) ==
    LET r == BoredomScale(RepulsionSum(Drifters, d, seen, params), boredom[d])
        vel == Damp(velocity[d] + Scaled(r, 1, 1000) + push)
        pos == position[d] + vel + BaseDrift(params, variation[d], driftDirection[d])
        st == [position |-> pos, velocity |-> vel,
               driftDirection |-> driftDirection[d], integrated |-> pos]
        moved == HardClamp(BounceHigh(BounceLow(st, MinPos(a, params)), MaxPos(a, params)))
        bored == UpdateBoredom(moved.position, lastSignificantPos[d], boredom[d])
    IN  [position |-> moved.position, velocity |-> moved.velocity,
         driftDirection |-> moved.driftDirection, integrated |-> moved.integrated,
         boredom |-> bored.boredom, lastSignificantPos |-> bored.lastSignificantPos,
         repulsion |-> r]

(* the positions iteration d of the drifter loop reads: the drifters   *)
(* before d have moved already (done holds their new state)            *)
SeenBy(d, done) == [o \in Drifters |-> IF o < d THEN done[o].position ELSE position[o]]

(* the drifter loop of lines 905-980 for drifters 0 .. n-1 *)
RECURSIVE UpdateDrifters(_, _, _, _)
UpdateDrifters(n, push, a, params) ==
    IF n = 0 THEN [x \in {} |-> 0]
    ELSE LET done == UpdateDrifters(n - 1, push, a, params)
             st == MoveDrifter(n - 1, push[n - 1], SeenBy(n - 1, done), a, params)
         IN  [x \in 0 .. (n - 1) |-> IF x = n - 1 THEN st ELSE done[x]]

(* the random walk of line 931 is randFloatBipolar * entropy * 0.01f:  *)
(* with the smoothed entropy at 0 (and the default gravity of 0)       *)
(* nothing but repulsion is added to the velocity                      *)
PushesOf(entropy) == IF entropy = 0 THEN {0} ELSE PushValues

(* the frames the movement is followed for *)
Horizon(entropy) == IF entropy = 0 THEN MaxQuietFrames ELSE MaxFrames

(* ------------------------------------------------------------------ *)
(* Scales and degreeToSemitones                                        *)
(* ------------------------------------------------------------------ *)
scaleChromatic == <<0, 1, 2, 3, 4, 5, 6, 7, 8, 9, 10, 11>>
(* scaleIonian with the seventh flattened *)
scaleIonianFlat7 == <<0, 2, 4, 5, 7, 9, 10>>
scaleIonian == <<0, 2, 4, 5, 7, 9, 11>>
scaleDorian == <<0, 2, 3, 5, 7, 9, 10>>
scalePhrygian == <<0, 1, 3, 5, 7, 8, 10>>
scaleLydian == <<0, 2, 4, 6, 7, 9, 11>>
scaleMixolydian == <<0, 2, 4, 5, 7, 9, 10>>
scaleAeolian == <<0, 2, 3, 5, 7, 8, 10>>
scaleLocrian == <<0, 1, 3, 5, 6, 8, 10>>
scaleMajorFlat6 == <<0, 2, 4, 5, 7, 8, 11>>
scaleMinorFlat6 == <<0, 2, 3, 5, 7, 8, 10>>
scaleLydianSharp4 == <<0, 2, 4, 6, 7, 9, 10>>
scaleHungarian == <<0, 2, 3, 6, 7, 8, 11>>
scalePersian == <<0, 1, 4, 5, 6, 8, 11>>
scaleByzantine == <<0, 1, 4, 5, 7, 8, 11>>
scaleEnigmatic == <<0, 1, 4, 6, 8, 10, 11>>
scaleNeapolitan == <<0, 1, 3, 5, 7, 8, 11>>
scaleHirajoshi == <<0, 2, 3, 7, 8>>
scaleIwato == <<0, 1, 5, 6, 10>>
scalePelog == <<0, 1, 3, 7, 10>>
scaleRyo == <<0, 2, 4, 7, 9>>
scaleRitsu == <<0, 2, 5, 7, 9>>
scaleYo == <<0, 2, 5, 7, 10>>

(* static const Scale scales[]: notes and noteCount; scales[i] of the   *)
(* source is scales[i + 1] here                                        *)
ScaleOf(notes) == [notes |-> notes, noteCount |-> Len(notes)]
scales ==
    <<ScaleOf(scaleChromatic), ScaleOf(scaleIonian), ScaleOf(scaleDorian),
      ScaleOf(scalePhrygian), ScaleOf(scaleLydian), ScaleOf(scaleMixolydian),
      ScaleOf(scaleAeolian), ScaleOf(scaleLocrian), ScaleOf(scaleMajorFlat6),
      ScaleOf(scaleMinorFlat6), ScaleOf(scaleLydianSharp4), ScaleOf(scaleHungarian),
      ScaleOf(scalePersian), ScaleOf(scaleByzantine), ScaleOf(scaleEnigmatic),
      ScaleOf(scaleNeapolitan), ScaleOf(scaleHirajoshi), ScaleOf(scaleIwato),
      ScaleOf(scalePelog), ScaleOf(scaleRyo), ScaleOf(scaleRitsu), ScaleOf(scaleYo)>>
ScaleIndices == 0 .. (Len(scales) - 1)
kScaleIonian == 1

(* integer division and remainder of C: the quotient is truncated      *)
(* toward zero and the remainder takes the sign of the dividend        *)
CDiv(a, b) == IF a >= 0 THEN a \div b ELSE -((-a) \div b)
CRem(a, b) == a - b * CDiv(a, b)

(* step 3 of the algorithm: octave = floor(degree / noteCount), the    *)
(* truncated quotient lowered by one when a remainder is left below 0  *)
OctaveOf(d, n) == IF CRem(d, n) < 0 THEN CDiv(d, n) - 1 ELSE CDiv(d, n)
(* step 4: degreeInOctave = degree % noteCount (handle negative) *)
DegreeInOctave(d, n) == IF CRem(d, n) < 0 THEN CRem(d, n) + n ELSE CRem(d, n)

(* degreeToSemitones(int degree, int scaleIndex), steps 1-5 *)
degreeToSemitones(d, i) ==
    LET scale == scales[i + 1]
    IN  IF i = 0
        THEN d
        ELSE OctaveOf(d, scale.noteCount) * 12
                 + scale.notes[DegreeInOctave(d, scale.noteCount) + 1]

(* one semitone in model units: twelfths of a semitone, so that a      *)
(* third of a semitone (the scatter of the inner drifters) and a       *)
(* quarter are exact                                                   *)
PitchOne == 12
OctaveUnits == 12 * PitchOne

(* whether a note at distance dNew replaces the best so far at         *)
(* distance dBest, taking the first note found                         *)
CloserStrict(dNew, dBest) == dNew < dBest

(* whether a note at distance dNew replaces the best so far at         *)
(* distance dBest in the scan of scale.notes[]: of two notes equally   *)
(* near the later one is kept (quantize(3.0) is 4 in Ionian)           *)
Closer(dNew, dBest) == dNew <= dBest

(* step 4 of the algorithm: the scan of scale.notes[] from index k on  *)
(* for the note at the minimum absolute distance from x                *)
RECURSIVE NearestFrom(_, _, _, _)
NearestFrom(x, notes, k, best) ==
    IF k > Len(notes) THEN best
    ELSE NearestFrom(x, notes, k + 1,
                     IF Closer(Abs(x - notes[k] * PitchOne), Abs(x - best * PitchOne))
                     THEN notes[k] ELSE best)
NearestNote(x, notes) == NearestFrom(x, notes, 2, notes[1])

(* quantizePitchToScale(float semitones, int scaleIndex), steps 1-5 *)
quantizePitchToScale(x, i) ==
    IF i = 0
    THEN x
    ELSE (OctaveOf(x, OctaveUnits) * 12
             + NearestNote(DegreeInOctave(x, OctaveUnits), scales[i + 1].notes)) * PitchOne

(* roundf: to the nearest integer, halves away from zero *)
RoundUnits(x) ==
    IF x >= 0 THEN (x + PitchOne \div 2) \div PitchOne
    ELSE 0 - ((PitchOne \div 2 - x) \div PitchOne)

(* the four drifters of the source, which the scatter pattern names *)
ScatterDrifters == 0 .. 3
(* the range of the Pitch and the Scatter parameter *)
kPitchMax == 24
kScatterMax == 12

(* src/drifters.cpp lines 1040-1042: scatter * scatterDir *            *)
(* (scatterIdx / 1.5f), with scatterIdx = fabsf(d - 1.5f)              *)
ScatterUnits(d, scatter) ==
    LET scatterDir == IF d = 0 \/ d = 3 THEN 1 ELSE 0 - 1
        twiceIdx == Abs(2 * d - 3)
    IN  (scatter * PitchOne * scatterDir * twiceIdx) \div 3

(* src/drifters.cpp lines 1038-1045: parameter, CV, scatter, jitter *)
RawPitchSemis(d, pitch, pitchMod, scatter, jitter) ==
    ((pitch * PitchOne + pitchMod) + ScatterUnits(d, scatter)) + jitter

(* the chromatic path with the scatter rounded to whole degrees *)
ChromaticScatterRounded(degrees) == RoundUnits(degrees) * PitchOne

(* the scatter of the chromatic path: degrees are raw semitones *)
ChromaticScatter(degrees) == degrees

(* the scale-aware pitch: the CV is quantized, the scatter is in scale *)
(* degrees converted by degreeToSemitones, the jitter is quantized;    *)
(* the chromatic scale bypasses the conversion                         *)
ScalePitchSemis(d, pitch, pitchMod, scatter, jitter, i) ==
    LET basePitch == pitch * PitchOne
                        + (IF pitchMod # 0 THEN quantizePitchToScale(pitchMod, i) ELSE 0)
        degrees == ScatterUnits(d, scatter)
        scatterSemis == IF i = 0 THEN ChromaticScatter(degrees)
                        ELSE degreeToSemitones(RoundUnits(degrees), i) * PitchOne
    IN  (basePitch + scatterSemis) + quantizePitchToScale(jitter, i)

(* ------------------------------------------------------------------ *)
(* Init: the state construct() leaves, with the parameter values of    *)
(* the loaded patch                                                    *)
(* ------------------------------------------------------------------ *)
Constructed ==
    /\ prevClock = 0
    /\ clockReceived = FALSE
    /\ timeSinceGrain = [d \in Drifters |-> 0]
    /\ nextGrainTime \in [Drifters -> IntervalValues]
    /\ grains = [g \in Slots |-> GrainZero]
    /\ mixed = {}
    /\ pulseOut = FALSE
    /\ cvOutPulse = 0
    /\ clockEdge = FALSE
    /\ shouldTrigger = [d \in Drifters |-> FALSE]
    /\ trial = [d \in Drifters |-> "none"]
    /\ slot = [d \in Drifters |-> kMaxTotalGrains]

(* the drifters as construct() spreads them, lines 691-711 *)
ConstructedDrifters ==
    /\ anchorSmooth = (50 * PosScale) \div 100
    /\ position = [d \in Drifters |-> (25 * PosScale) \div 100 + d * ((15 * PosScale) \div 100)]
    /\ velocity = [d \in Drifters |-> 0]
    /\ variation \in [Drifters -> VariationValues]
    /\ driftDirection = [d \in Drifters |-> IF d % 2 = 0 THEN 1 ELSE -1]
    /\ integrated = position
    /\ frame = 0
    /\ boredom = [d \in Drifters |-> 0]
    /\ lastSignificantPos = position
    /\ repulsion = [d \in Drifters |-> 0]

(* no conversion made yet *)
ScaleIdle == degree = 0 /\ scaleIndex = 0 /\ semitones = 0

(* the parts of the state the scheduler and movement specifications    *)
(* leave alone                                                         *)
(* memset(dtc, 0, ...): clockPhase and clockPeriod are 0 *)
ClockZero == clockPhase = 0 /\ clockPeriod = [num |-> 0, den |-> 1]

(* memset leaves stormLevel 0; entropySmooth = 0.25f, line 698 *)
StormZero ==
    /\ stormLevel = 0
    /\ entropySmooth = (25 * EntropyOne) \div 100
    /\ stormGate = FALSE

(* the loader as construct() leaves it, lines 713-736, with no card   *)
(* seen yet and nothing written to the busses                          *)
LoadZero ==
    /\ sdMounted = FALSE
    /\ inflight = <<>>
    /\ cardMounted = FALSE
    /\ awaitingCallback = FALSE
    /\ pendingSampleLoad = FALSE
    /\ pendingSampleLength = 0
    /\ pendingSourceSampleRate = 48000
    /\ sampleLength = 0
    /\ sourceSampleRate = 48000
    /\ sampleLoaded = FALSE
    /\ sampleBufferL = [c \in Chunks |-> 0]
    /\ busOut = [b \in {"outL", "outR", "cvOutPos", "cvOutPulse"} |-> [f \in Frames |-> BusBefore]]
    /\ lastEvent = "construct"
    /\ wavRequestSample = 0
    /\ stepPc = "idle"

(* the loader at rest with the playable file loaded: the state in      *)
(* which the frame loop runs                                           *)
LoadedIdle ==
    /\ sdMounted = TRUE
    /\ inflight = <<>>
    /\ cardMounted = TRUE
    /\ awaitingCallback = FALSE
    /\ pendingSampleLoad = FALSE
    /\ pendingSampleLength = Min(FileFrames(2), kMaxSampleFrames)
    /\ pendingSourceSampleRate = FileRate(2)
    /\ sampleLength = Min(FileFrames(2), kMaxSampleFrames)
    /\ sourceSampleRate = FileRate(2)
    /\ sampleLoaded = TRUE
    /\ sampleBufferL = [c \in Chunks |-> IF c * ChunkFrames < FileFrames(2) THEN 2 ELSE 0]
    /\ busOut = [b \in {"outL", "outR", "cvOutPos", "cvOutPulse"} |-> [f \in Frames |-> BusBefore]]
    /\ lastEvent = "callbackSuccess"
    /\ wavRequestSample = 2
    /\ stepPc = "idle"

(* dtc->smoothNorm = 1.0f, line 692 *)
NormUnity == smoothNorm = NormOne /\ activeGrains = 0 /\ normFrame = 0

(* no grain has been started: the zero-crossing search has not run *)
ZcIdle ==
    /\ zcLen = 0 /\ zcStart = 0 /\ zcBuf = "silence" /\ zcOffset = 0
    /\ zcBestPos = 0 /\ zcBestVal = 0 /\ zcRead = {} /\ zcResult = 0 /\ zcPc = "idle"

(* no trigger has computed a rate *)
LamNone == lambda = [num |-> 0, den |-> 1] /\ lambdaBy = "none" /\ divByZero = FALSE

(* no pitch has been quantized or computed *)
QuantIdle == quantIn = 0 /\ quantScale = 0 /\ quantOut = 0 /\ quantDone = FALSE
PitchIdle ==
    /\ pitchArgs = [d |-> 0, pitch |-> 0, pitchMod |-> 0, scatter |-> 0, jitter |-> 0, scaleIndex |-> 0]
    /\ pitchSemis = 0
    /\ rawSemis = 0
    /\ pitchDone = FALSE

ConstructedMore == NormUnity /\ ZcIdle /\ LamNone /\ QuantIdle /\ PitchIdle

ConstructedRest == ScaleIdle /\ ClockZero /\ StormZero /\ LoadedIdle /\ ConstructedMore

(* the parameter defaults of the table: Clock "None", Deviation 100,    *)
(* Density 50, Anchor 50, Wander 30, Drift 30                          *)
Defaults ==
    [CvClock |-> 0, Deviation |-> 100, Density |-> 50,
     Anchor |-> 50, Wander |-> 30, Drift |-> 30,
     Entropy |-> 25, CvEntropy |-> 0, CvStorm |-> 0,
     Sample |-> 0, OutputLMode |-> 0, OutputRMode |-> 0, Spectrum |-> 0]

Init ==
    /\ v = Defaults
    /\ Constructed
    /\ ConstructedDrifters
    /\ ConstructedRest

InitClock ==
    /\ v = [Defaults EXCEPT !.CvClock = 1, !.Density = 100]
    /\ Constructed
    /\ ConstructedDrifters
    /\ ConstructedRest

InitLocked ==
    /\ v = [Defaults EXCEPT !.CvClock = 1, !.Deviation = 0, !.Density = 0]
    /\ Constructed
    /\ ConstructedDrifters
    /\ ConstructedRest

InitDrift ==
    /\ v = Defaults
    /\ Constructed
    /\ ConstructedDrifters
    /\ ConstructedRest

(* ------------------------------------------------------------------ *)
(* Actions                                                             *)
(* ------------------------------------------------------------------ *)

(* the host writes a parameter between two calls of step() *)
SetDeviation ==
    /\ \E x \in DeviationValues : x # v.Deviation /\ v' = [v EXCEPT !.Deviation = x]
    /\ UNCHANGED <<schedVars, driftVars, restVars>>

SetDensity ==
    /\ \E x \in DensityValues : x # v.Density /\ v' = [v EXCEPT !.Density = x]
    /\ UNCHANGED <<schedVars, driftVars, restVars>>

SetCvClock ==
    /\ \E x \in CvClockValues : x # v.CvClock /\ v' = [v EXCEPT !.CvClock = x]
    /\ UNCHANGED <<schedVars, driftVars, restVars>>

(* float clockIn = cvClock ? cvClock[frame] : 0 *)
ClockIn == IF v.CvClock > 0 THEN ClockLevels ELSE {0}

(* one iteration of the frame loop of step(): clock detection, grain   *)
(* triggering for every drifter, rendering, pulse output               *)
Tick ==
    \E clockIn \in ClockIn :
        LET edge == clockIn > kClockThreshold /\ prevClock <= kClockThreshold
            received == clockReceived \/ edge
            s0 == [timeSinceGrain |-> timeSinceGrain,
                   nextGrainTime |-> nextGrainTime,
                   grains |-> grains,
                   pulseOut |-> pulseOut,
                   shouldTrigger |-> shouldTrigger,
                   trial |-> trial,
                   slot |-> slot]
        IN  \E s1 \in DrifterLoop({s0}, 0, received, edge, v) :
            /\ clockEdge' = edge
            /\ clockReceived' = received
            /\ prevClock' = clockIn
            /\ timeSinceGrain' = s1.timeSinceGrain
            /\ nextGrainTime' = s1.nextGrainTime
            /\ shouldTrigger' = s1.shouldTrigger
            /\ trial' = s1.trial
            /\ slot' = s1.slot
            /\ grains' = RenderGrains(s1.grains, v)
            /\ mixed' = {g \in Slots : Rendered(s1.grains, g)}
            /\ cvOutPulse' = IF s1.pulseOut THEN 5 ELSE 0
            /\ pulseOut' = FALSE
            /\ UNCHANGED <<v, driftVars, restVars>>

SetWander ==
    /\ \E x \in WanderValues : x # v.Wander /\ v' = [v EXCEPT !.Wander = x]
    /\ UNCHANGED <<schedVars, driftVars, restVars>>

(* the movement part of one iteration of the frame loop: the anchor    *)
(* smoother of line 865 and the drifter loop of lines 905-980          *)
DriftTick ==
    /\ frame < Horizon(entropySmooth)
    /\ frame' = frame + 1
    /\ \E push \in [Drifters -> PushesOf(entropySmooth)] :
           LET a == SmoothAnchor(anchorSmooth, v)
               st == UpdateDrifters(kNumDrifters, push, a, v)
           IN  /\ anchorSmooth' = a
               /\ position' = [d \in Drifters |-> st[d].position]
               /\ velocity' = [d \in Drifters |-> st[d].velocity]
               /\ driftDirection' = [d \in Drifters |-> st[d].driftDirection]
               /\ integrated' = [d \in Drifters |-> st[d].integrated]
               /\ boredom' = [d \in Drifters |-> st[d].boredom]
               /\ lastSignificantPos' = [d \in Drifters |-> st[d].lastSignificantPos]
               /\ repulsion' = [d \in Drifters |-> st[d].repulsion]
    /\ UNCHANGED <<v, schedVars, variation, restVars>>

Next == Tick \/ SetDensity
Spec == Init /\ [][Next]_vars

(* the pool with the spectral filters in use and the longest grains,   *)
(* every drifter due at the first tick                                 *)
InitPool ==
    /\ v = [Defaults EXCEPT !.Spectrum = 50, !.Density = 0]
    /\ Constructed
    /\ \A d \in Drifters : nextGrainTime[d] = 0
    /\ ConstructedDrifters
    /\ ConstructedRest

NextPool == Tick
SpecPool == InitPool /\ [][NextPool]_vars

NextClock == Tick \/ SetDeviation \/ SetCvClock
SpecClock == InitClock /\ [][NextClock]_vars

NextLocked == Tick
SpecLocked == InitLocked /\ [][NextLocked]_vars

(* ------------------------------------------------------------------ *)
(* Entropy and storm, lines 856-877                                    *)
(* ------------------------------------------------------------------ *)

(* entropyMod = cvEntropy ? fmaxf(0, cvEntropy[frame] * 0.2f) : 0 *)
EntropyMod(params, volts) ==
    IF params.CvEntropy > 0 THEN Max(0, (volts * 2 * EntropyOne) \div 10) ELSE 0

(* stormGate = cvStorm ? cvStorm[frame] > 1.0f : false *)
StormGate(params, volts) == IF params.CvStorm > 0 THEN volts > 1 ELSE FALSE

(* stormLevel *= 0.9999f: the product, cut to the model's resolution *)
Decay(x) == (x * 9999) \div 10000

(* the values the product can round to.  Over the normal float range   *)
(* the factor is resolved and the product is smaller; the lowest unit  *)
(* stands for the subnormal tail, where the product rounds back to the *)
(* level itself unless the build flushes subnormals to zero            *)
DecayOutcomes(x) == IF x = 1 THEN {x, Decay(x)} ELSE {Decay(x)}

(* if (stormGate) stormLevel = 1.0f; else stormLevel *= 0.9999f; *)
StormAfter(level, gate) == IF gate THEN {EntropyOne} ELSE DecayOutcomes(level)

(* EffectiveEntropy without the cap *)
EffectiveEntropyUncapped(params, mod, storm) ==
    (params.Entropy * EntropyOne) \div 100 + mod + storm

(* targetEntropy = v[kParamEntropy] / 100.0f + entropyMod;             *)
(* effectiveEntropy = fminf(1.0f, targetEntropy + stormLevel)          *)
EffectiveEntropy(params, mod, storm) ==
    Min(EntropyOne, (params.Entropy * EntropyOne) \div 100 + mod + storm)

(* x += (target - x) * smoothRate with smoothRate = 0.001f: a move     *)
(* toward the target, of at least one unit of the model's resolution   *)
SmoothToward(x, target) ==
    IF target > x THEN x + ((target - x) + 999) \div 1000
    ELSE IF target < x THEN x - ((x - target) + 999) \div 1000
    ELSE x

(* the entropy part of one iteration of the frame loop *)
StormTick ==
    /\ \E sv \in StormVolts, ev \in EntropyVolts :
           LET gate == StormGate(v, sv)
           IN  \E storm \in StormAfter(stormLevel, gate) :
               /\ stormGate' = gate
               /\ stormLevel' = storm
               /\ entropySmooth' =
                      SmoothToward(entropySmooth,
                                   EffectiveEntropy(v, EntropyMod(v, ev), storm))
    /\ UNCHANGED <<v, schedVars, driftVars, scaleVars, clockVars, loadVars, moreVars>>

SetEntropy ==
    /\ \E x \in EntropyValues : x # v.Entropy /\ v' = [v EXCEPT !.Entropy = x]
    /\ UNCHANGED <<schedVars, driftVars, restVars>>

(* 1.0f / x as a fraction *)
Reciprocal(x) == [num |-> 1, den |-> x]

(* the clock detection of one iteration of the frame loop, lines       *)
(* 879-894, with the period measurement; the clock rises again before  *)
(* clockPhase passes MaxClockPhase                                     *)
ClockTick ==
    /\ \E clockIn \in ClockIn :
           LET edge == clockIn > kClockThreshold /\ prevClock <= kClockThreshold
               received == clockReceived \/ edge
               phase == IF edge THEN 0 ELSE clockPhase
           IN  /\ (clockPhase >= MaxClockPhase) => edge
               /\ clockEdge' = edge
               /\ clockPeriod' = IF edge /\ clockReceived
                                 THEN Reciprocal(clockPhase)
                                 ELSE clockPeriod
               /\ clockReceived' = received
               /\ prevClock' = clockIn
               /\ clockPhase' = IF received THEN phase + 1 ELSE phase
    /\ UNCHANGED <<v, timeSinceGrain, nextGrainTime, grains, pulseOut, cvOutPulse,
                   shouldTrigger, trial, slot, mixed, driftVars, scaleVars, stormVars, loadVars, moreVars>>

(* one call of degreeToSemitones *)
Convert ==
    /\ \E d \in (-MaxDegree) .. MaxDegree, i \in ScaleIndices :
           /\ degree' = d
           /\ scaleIndex' = i
           /\ semitones' = degreeToSemitones(d, i)
    /\ UNCHANGED <<v, schedVars, driftVars, clockVars, stormVars, loadVars, moreVars>>

NextDrift == DriftTick \/ SetWander
SpecDrift == InitDrift /\ [][NextDrift]_vars

(* the entropy smoother at rest at 0, where an Entropy of 0 leaves it *)
StormQuiet == stormLevel = 0 /\ entropySmooth = 0 /\ stormGate = FALSE

(* the drifters at rest with drifter 1 at p and every boredom at b:    *)
(* with p the constructed position and b = 0 this is                   *)
(* ConstructedDrifters, the other values are where the movement can    *)
(* have taken them                                                     *)
DriftersAt(p, b) ==
    /\ anchorSmooth = (50 * PosScale) \div 100
    /\ position = [d \in Drifters |-> IF d = 1 THEN p
                                       ELSE (25 * PosScale) \div 100 + d * ((15 * PosScale) \div 100)]
    /\ velocity = [d \in Drifters |-> 0]
    /\ variation \in [Drifters -> VariationValues]
    /\ driftDirection = [d \in Drifters |-> IF d % 2 = 0 THEN 1 ELSE -1]
    /\ integrated = position
    /\ frame = 0
    /\ boredom = [d \in Drifters |-> b]
    /\ lastSignificantPos = position
    /\ repulsion = [d \in Drifters |-> 0]

(* the movement with Entropy at 0 and its smoother settled: the        *)
(* drifters move by drift and repulsion alone                          *)
InitBored ==
    /\ \E x \in DriftValues : v = [Defaults EXCEPT !.Entropy = 0, !.Drift = x]
    /\ Constructed
    /\ \A d \in Drifters : nextGrainTime[d] = 0
    /\ \E p \in NearValues, b \in BoredomValues : DriftersAt(p, b)
    /\ ScaleIdle /\ ClockZero /\ StormQuiet /\ LoadedIdle /\ ConstructedMore

NextBored == DriftTick
SpecBored == InitBored /\ [][NextBored]_vars

InitPeriod ==
    /\ v = [Defaults EXCEPT !.CvClock = 1]
    /\ Constructed
    /\ ConstructedDrifters
    /\ ConstructedRest
NextPeriod == ClockTick
SpecPeriod == InitPeriod /\ [][NextPeriod]_vars

InitStorm ==
    /\ v = [Defaults EXCEPT !.CvEntropy = 1, !.CvStorm = 1]
    /\ Constructed
    /\ ConstructedDrifters
    /\ ConstructedRest
NextStorm == StormTick \/ SetEntropy
SpecStorm == InitStorm /\ [][NextStorm]_vars

InitScale ==
    /\ v = Defaults
    /\ Constructed
    /\ ConstructedDrifters
    /\ ConstructedRest
NextScale == Convert
SpecScale == InitScale /\ [][NextScale]_vars

(* ------------------------------------------------------------------ *)
(* Sample loading and the silent block                                 *)
(* ------------------------------------------------------------------ *)
Busses == {"outL", "outR", "cvOutPos", "cvOutPulse"}

(* the silence test without its length part *)
SilentNoLength(loaded, len) == ~loaded

(* line 837: the block is silent *)
Silent(loaded, len) == ~loaded \/ len < kMinSampleFrames

(* lines 646-650: the frames requested of a file *)
FramesToRead(sample) == Min(FileFrames(sample), kMaxSampleFrames)

(* a completion that applies the pending values whatever it reports *)
AppliedAlways(success, cur, pending) == <<pending[1], pending[2], TRUE>>

(* wavLoadCallback, lines 616-629: the values of                       *)
(* <<sampleLength, sourceSampleRate, sampleLoaded>> after a completion *)
Applied(success, cur, pending) == IF success THEN <<pending[1], pending[2], TRUE>> ELSE cur

(* parameterChanged(kParamSample), lines 768-771 *)
SetSample ==
    /\ \E sample \in SampleValues : v' = [v EXCEPT !.Sample = sample]
    /\ pendingSampleLoad' = TRUE
    /\ lastEvent' = "parameterChanged"
    /\ UNCHANGED <<sdMounted, inflight, cardMounted, awaitingCallback, pendingSampleLength,
                   pendingSourceSampleRate, sampleLength, sourceSampleRate, sampleLoaded,
                   sampleBufferL, busOut, wavRequestSample, stepPc>>
    /\ UNCHANGED <<schedVars, driftVars, scaleVars, clockVars, stormVars, moreVars>>

(* the card is put in or taken out; the plug-in sees it in step() *)
CardChange ==
    /\ sdMounted' = ~sdMounted
    /\ lastEvent' = "card"
    /\ UNCHANGED <<inflight, cardMounted, awaitingCallback, pendingSampleLoad, pendingSampleLength,
                   pendingSourceSampleRate, sampleLength, sourceSampleRate, sampleLoaded,
                   sampleBufferL, busOut, wavRequestSample, stepPc>>
    /\ UNCHANGED <<v, schedVars, driftVars, scaleVars, clockVars, stormVars, moreVars>>

(* step(): the mount check (lines 783-809), the deferred load (lines   *)
(* 811-816, with loadSample, lines 633-681) and then either the silent *)
(* block (lines 837-846) or the frame loop's writes to the busses      *)
(* (lines 1154-1161)                                                   *)
Step ==
    \E accepted \in BOOLEAN, mix \in SignalValues :
        LET changed == cardMounted # sdMounted
            pendingA == IF changed THEN sdMounted ELSE pendingSampleLoad
            awaitingA == IF changed /\ ~sdMounted THEN FALSE ELSE awaitingCallback
            attempt == pendingA /\ ~awaitingA
            canRequest == attempt /\ sdMounted /\ FileFrames(v.Sample) # 0
            started == canRequest /\ accepted
            silent == Silent(sampleLoaded, sampleLength)
            replace == [b \in Busses |-> CASE b = "outL" -> v.OutputLMode = 1
                                           [] b = "outR" -> v.OutputRMode = 1
                                           [] OTHER -> TRUE]
            signal == [b \in Busses |-> IF silent THEN 0
                                        ELSE mix]
        IN  /\ stepPc = "idle"
            /\ accepted => (canRequest /\ Len(inflight) < MaxInflight)
            /\ silent => mix = 0
            /\ wavRequestSample' = IF canRequest THEN v.Sample ELSE wavRequestSample
            /\ cardMounted' = sdMounted
            /\ pendingSampleLength' = IF canRequest THEN FramesToRead(v.Sample) ELSE pendingSampleLength
            /\ pendingSourceSampleRate' = IF canRequest THEN FileRate(v.Sample) ELSE pendingSourceSampleRate
            /\ inflight' = IF started
                           THEN Append(inflight, [sample |-> v.Sample, numFrames |-> FramesToRead(v.Sample), written |-> 0])
                           ELSE inflight
            /\ awaitingCallback' = (started \/ awaitingA)
            /\ pendingSampleLoad' = (pendingA /\ ~started)
            /\ busOut' = [b \in Busses |-> [f \in Frames |->
                              IF silent
                              THEN IF b \in {"outL", "outR"} /\ ~replace[b] THEN BusBefore ELSE 0
                              ELSE IF replace[b] THEN signal[b] ELSE BusBefore + signal[b]]]
            /\ lastEvent' = "step"
            /\ UNCHANGED <<sdMounted, sampleLength, sourceSampleRate, sampleLoaded, sampleBufferL,
                           stepPc>>
            /\ UNCHANGED <<v, schedVars, driftVars, scaleVars, clockVars, stormVars, moreVars>>

(* the host carries out the oldest request: it writes the next chunk   *)
(* of the file to wavRequest.dst, which is dram->sampleBufferL (line   *)
(* 667)                                                                *)
LoaderWrite ==
    /\ inflight # <<>>
    /\ LET req == Head(inflight)
       IN  /\ req.written * ChunkFrames < req.numFrames
           /\ sampleBufferL' = [sampleBufferL EXCEPT ![req.written] = req.sample]
           /\ inflight' = <<[req EXCEPT !.written = req.written + 1]>> \o Tail(inflight)
    /\ lastEvent' = "write"
    /\ UNCHANGED <<sdMounted, cardMounted, awaitingCallback, pendingSampleLoad, pendingSampleLength,
                   pendingSourceSampleRate, sampleLength, sourceSampleRate, sampleLoaded, busOut,
                   wavRequestSample, stepPc>>
    /\ UNCHANGED <<v, schedVars, driftVars, scaleVars, clockVars, stormVars, moreVars>>

(* the host completes the oldest request and runs wavLoadCallback,     *)
(* lines 616-629; it reports success only once every frame is written  *)
LoadComplete ==
    /\ inflight # <<>>
    /\ \E success \in BOOLEAN :
           LET req == Head(inflight)
               after == Applied(success, <<sampleLength, sourceSampleRate, sampleLoaded>>,
                                <<pendingSampleLength, pendingSourceSampleRate>>)
           IN  /\ success => req.written * ChunkFrames >= req.numFrames
               /\ awaitingCallback' = FALSE
               /\ sampleLength' = after[1]
               /\ sourceSampleRate' = after[2]
               /\ sampleLoaded' = after[3]
               /\ lastEvent' = IF success THEN "callbackSuccess" ELSE "callbackFailure"
    /\ inflight' = Tail(inflight)
    /\ UNCHANGED <<sdMounted, cardMounted, pendingSampleLoad, pendingSampleLength,
                   pendingSourceSampleRate, sampleBufferL, busOut, wavRequestSample, stepPc>>
    /\ UNCHANGED <<v, schedVars, driftVars, scaleVars, clockVars, stormVars, moreVars>>

(* step() from its entry to the return of loadSample(): the mount     *)
(* check of lines 783-809, the test of line 812 and loadSample, lines  *)
(* 633-681, which reads v[kParamSample] and issues the request; the    *)
(* assignment of line 814 is still to come                             *)
StepLoadBegin ==
    \E accepted \in BOOLEAN :
        LET changed == cardMounted # sdMounted
            pendingA == IF changed THEN sdMounted ELSE pendingSampleLoad
            awaitingA == IF changed /\ ~sdMounted THEN FALSE ELSE awaitingCallback
            attempt == pendingA /\ ~awaitingA
            canRequest == attempt /\ sdMounted /\ FileFrames(v.Sample) # 0
            started == canRequest /\ accepted
        IN  /\ stepPc = "idle"
            /\ attempt
            /\ accepted => (canRequest /\ Len(inflight) < MaxInflight)
            /\ wavRequestSample' = IF canRequest THEN v.Sample ELSE wavRequestSample
            /\ cardMounted' = sdMounted
            /\ pendingSampleLength' = IF canRequest THEN FramesToRead(v.Sample) ELSE pendingSampleLength
            /\ pendingSourceSampleRate' = IF canRequest THEN FileRate(v.Sample) ELSE pendingSourceSampleRate
            /\ inflight' = IF started
                           THEN Append(inflight, [sample |-> v.Sample, numFrames |-> FramesToRead(v.Sample), written |-> 0])
                           ELSE inflight
            /\ awaitingCallback' = (started \/ awaitingA)
            /\ pendingSampleLoad' = pendingA
            /\ stepPc' = IF started THEN "loadStarted" ELSE "loadNotStarted"
            /\ lastEvent' = "loadSample"
            /\ UNCHANGED <<sdMounted, sampleLength, sourceSampleRate, sampleLoaded, sampleBufferL, busOut>>
            /\ UNCHANGED <<v, schedVars, driftVars, scaleVars, clockVars, stormVars, moreVars>>

(* the rest of that step(): line 814 clears pendingSampleLoad if the   *)
(* load was started, then the silent block (lines 837-846) or the      *)
(* frame loop's writes to the busses (lines 1154-1161)                 *)
StepLoadEnd ==
    \E mix \in SignalValues :
        LET silent == Silent(sampleLoaded, sampleLength)
            replace == [b \in Busses |-> CASE b = "outL" -> v.OutputLMode = 1
                                           [] b = "outR" -> v.OutputRMode = 1
                                           [] OTHER -> TRUE]
        IN  /\ stepPc # "idle"
            /\ silent => mix = 0
            /\ pendingSampleLoad' = IF stepPc = "loadStarted" THEN FALSE ELSE pendingSampleLoad
            /\ busOut' = [b \in Busses |-> [f \in Frames |->
                              IF silent
                              THEN IF b \in {"outL", "outR"} /\ ~replace[b] THEN BusBefore ELSE 0
                              ELSE IF replace[b] THEN mix ELSE BusBefore + mix]]
            /\ stepPc' = "idle"
            /\ lastEvent' = "step"
            /\ UNCHANGED <<sdMounted, inflight, cardMounted, awaitingCallback, pendingSampleLength,
                           pendingSourceSampleRate, sampleLength, sourceSampleRate, sampleLoaded,
                           sampleBufferL, wavRequestSample>>
            /\ UNCHANGED <<v, schedVars, driftVars, scaleVars, clockVars, stormVars, moreVars>>

(* the card in and seen, the playable file selected and loaded; the   *)
(* card stays in, and a parameter change can arrive while step() is    *)
(* inside loadSample()                                                 *)
InitSelect ==
    /\ v = [Defaults EXCEPT !.Sample = 2]
    /\ Constructed /\ ConstructedDrifters
    /\ \A d \in Drifters : nextGrainTime[d] = 0
    /\ ScaleIdle /\ ClockZero /\ StormZero /\ LoadedIdle /\ ConstructedMore

NextSelect == SetSample \/ Step \/ StepLoadBegin \/ StepLoadEnd \/ LoaderWrite \/ LoadComplete
SpecSelect == InitSelect /\ [][NextSelect]_vars

(* ------------------------------------------------------------------ *)
(* Normalization                                                       *)
(* ------------------------------------------------------------------ *)
(* the integer square root of x, found between lo and hi *)
RECURSIVE ISqrtBetween(_, _, _)
ISqrtBetween(x, lo, hi) ==
    IF lo >= hi THEN lo
    ELSE LET mid == (lo + hi + 1) \div 2
         IN  IF mid * mid <= x THEN ISqrtBetween(x, mid, hi) ELSE ISqrtBetween(x, lo, mid - 1)

(* a target of 1 / n instead of 1 / sqrt(n) *)
TargetNormLinear(n) == IF n > 1 THEN NormOne \div n ELSE NormOne

(* line 1139: (activeGrains > 1) ? 1.0f / sqrtf(activeGrains) : 1.0f *)
TargetNorm(n) == IF n > 1 THEN ISqrtBetween((NormOne * NormOne) \div n, 0, NormOne) ELSE NormOne

(* lines 1140-1141: smoothNorm += 0.001f * (targetNorm - smoothNorm),  *)
(* then the floor of 0.1f                                              *)
NormAfter(norm, n) == Max(NormOne \div 10, norm + Scaled(TargetNorm(n) - norm, 1, 1000))

(* the normalization of one iteration of the frame loop, n being the   *)
(* number of active slots the render loop has counted                  *)
NormTick ==
    /\ normFrame < MaxFrames
    /\ normFrame' = normFrame + 1
    /\ \E n \in 0 .. MaxNormGrains :
           /\ activeGrains' = n
           /\ smoothNorm' = NormAfter(smoothNorm, n)
    /\ UNCHANGED <<v, schedVars, driftVars, scaleVars, clockVars, stormVars, loadVars, zcVars, lamVars, quantVars, pitchVars>>

InitNorm ==
    /\ v = Defaults
    /\ Constructed /\ ConstructedDrifters
    /\ \A d \in Drifters : nextGrainTime[d] = 0
    /\ ScaleIdle /\ ClockZero /\ StormZero /\ LoadedIdle
    /\ smoothNorm \in NormValues /\ activeGrains = 0 /\ normFrame = 0
    /\ ZcIdle /\ LamNone /\ QuantIdle /\ PitchIdle

NextNorm == NormTick
SpecNorm == InitNorm /\ [][NextNorm]_vars

(* ------------------------------------------------------------------ *)
(* Zero-crossing search at grain onset                                 *)
(* ------------------------------------------------------------------ *)
(* the search radius of the call at line 1029 *)
kOnsetSearchRadius == 256

(* a % n of C, which truncates toward zero: negative for negative a *)
CMod(a, n) == IF a >= 0 THEN a % n ELSE 0 - ((0 - a) % n)

(* the sample lengths a grain is started with: line 837 refuses less   *)
(* than kMinSampleFrames                                               *)
ZcLens == {kMinSampleFrames, (kMinSampleFrames + kMaxSampleFrames) \div 2, kMaxSampleFrames}

(* line 1028: rawPos = (int)(drifter.position * sampleLen), for the    *)
(* lowest, the middle and the highest position of a drifter            *)
ZcStarts(len) ==
    {(kPosMin * len) \div PosScale, len \div 2, ((PosScale - kPosMin) * len) \div PosScale}

ZcBufs == {"silence", "dc", "ramp", "cross"}

(* sampleBufferL[i] for i inside the sample *)
SampleAt(buf, len, i) ==
    CASE buf = "silence" -> 0
      [] buf = "dc"      -> 5
      [] buf = "ramp"    -> i + 1
      [] buf = "cross"   -> IF i < len \div 4 THEN 5 ELSE 0 - 3

(* what memory outside the sample may hold *)
StrayValues == {0 - 5, 0, 5}

(* the values buffer[i] can yield: the sample's inside [0, len), any   *)
(* value outside it                                                    *)
BufferRead(buf, len, i) ==
    IF i >= 0 /\ i < len THEN {SampleAt(buf, len, i)} ELSE StrayValues

(* lines 448-451: the guard, bestPos and bestVal *)
ZcCall ==
    /\ zcPc = "idle"
    /\ \E len \in ZcLens : \E buf \in ZcBufs : \E start \in ZcStarts(len) :
           /\ zcLen' = len /\ zcBuf' = buf /\ zcStart' = start
           /\ zcOffset' = 1
           /\ zcBestPos' = CMod(start, len)
           /\ zcBestVal' = Abs(SampleAt(buf, len, CMod(start, len)))
           /\ zcRead' = {CMod(start, len)}
           /\ zcResult' = 0
           /\ zcPc' = "search"
    /\ UNCHANGED <<v, schedVars, driftVars, scaleVars, clockVars, stormVars, loadVars, normVars, lamVars, quantVars, pitchVars>>

(* lines 453-484: one iteration of the search loop, and line 486 when  *)
(* it was the last                                                     *)
ZcStep ==
    /\ zcPc = "search"
    /\ zcOffset <= kOnsetSearchRadius
    /\ LET posF  == CMod(zcStart + zcOffset, zcLen)
           prevF == CMod(zcStart + zcOffset - 1, zcLen)
           posB  == CMod(zcStart - zcOffset + zcLen, zcLen)
           prevB == CMod(zcStart - zcOffset + 1 + zcLen, zcLen)
       IN  \E valF \in BufferRead(zcBuf, zcLen, posF) :
           \E valPF \in BufferRead(zcBuf, zcLen, prevF) :
           \E valB \in BufferRead(zcBuf, zcLen, posB) :
           \E valPB \in BufferRead(zcBuf, zcLen, prevB) :
             LET bestF    == IF Abs(valF) < zcBestVal THEN posF ELSE zcBestPos
                 bestValF == Min(Abs(valF), zcBestVal)
                 bestB    == IF Abs(valB) < bestValF THEN posB ELSE bestF
                 bestValB == Min(Abs(valB), bestValF)
             IN  IF valPF * valF < 0
                 THEN /\ zcResult' = IF Abs(valPF) < Abs(valF) THEN prevF ELSE posF
                      /\ zcPc' = "done"
                      /\ zcRead' = {posF, prevF}
                      /\ zcBestPos' = bestF /\ zcBestVal' = bestValF
                      /\ UNCHANGED zcOffset
                 ELSE IF valPB * valB < 0
                 THEN /\ zcResult' = IF Abs(valPB) < Abs(valB) THEN prevB ELSE posB
                      /\ zcPc' = "done"
                      /\ zcRead' = {posF, prevF, posB, prevB}
                      /\ zcBestPos' = bestB /\ zcBestVal' = bestValB
                      /\ UNCHANGED zcOffset
                 ELSE /\ zcOffset' = zcOffset + 1
                      /\ zcRead' = {posF, prevF, posB, prevB}
                      /\ zcBestPos' = bestB /\ zcBestVal' = bestValB
                      /\ IF zcOffset = kOnsetSearchRadius
                         THEN zcPc' = "done" /\ zcResult' = bestB
                         ELSE zcPc' = "search" /\ zcResult' = zcResult
    /\ UNCHANGED <<zcLen, zcStart, zcBuf>>
    /\ UNCHANGED <<v, schedVars, driftVars, scaleVars, clockVars, stormVars, loadVars, normVars, lamVars, quantVars, pitchVars>>

InitZc ==
    /\ v = Defaults
    /\ Constructed /\ ConstructedDrifters
    /\ \A d \in Drifters : nextGrainTime[d] = 0
    /\ ScaleIdle /\ ClockZero /\ StormZero /\ LoadedIdle
    /\ ConstructedMore

NextZc == ZcCall \/ ZcStep
SpecZc == InitZc /\ [][NextZc]_vars

(* ------------------------------------------------------------------ *)
(* The rate of the exponential draw                                    *)
(* ------------------------------------------------------------------ *)
(* values of densitySmooth in quarters of a grain per second: it moves *)
(* among densityToRate(0) = 0.25, the 8.0 of construction and          *)
(* densityToRate(100) = 50                                             *)
LamDensities == {1, 32, 200}

(* 1.0f + randFloatBipolar * entropy * 0.5f, in halves: 0.5, 1, 1.5 *)
JitterHalves == {1, 2, 3}

(* src/drifters.cpp lines 1014-1018: lambda = densitySmooth, times the *)
(* jitter                                                              *)
LambdaDrifters(ds, jf) == [num |-> ds * jf, den |-> 8]

(* src/drift_engine.cpp lines 974-984: with a clock received and       *)
(* deviation below 100% the rate is blended with 1.0f / clockPeriod    *)
(* before the jitter                                                   *)
LambdaEngine(ds, jf, dev, received, period) ==
    IF received /\ dev < 100
    THEN [num |-> (ds * dev * period.num + 4 * period.den * (100 - dev)) * jf,
          den |-> 800 * period.num]
    ELSE [num |-> ds * jf, den |-> 8]

(* a trigger of src/drifters.cpp computes its rate *)
TriggerLambda ==
    /\ \E ds \in LamDensities, jf \in JitterHalves :
           lambda' = LambdaDrifters(ds, jf)
    /\ lambdaBy' = "drifters"
    /\ divByZero' = FALSE
    /\ UNCHANGED <<v, schedVars, driftVars, scaleVars, clockVars, stormVars, loadVars, normVars, zcVars, quantVars, pitchVars>>

(* a trigger of src/drift_engine.cpp computes its rate *)
TriggerLambdaEngine ==
    /\ \E ds \in LamDensities, jf \in JitterHalves :
           lambda' = LambdaEngine(ds, jf, v.Deviation, clockReceived, clockPeriod)
    /\ lambdaBy' = "drift_engine"
    /\ divByZero' = (clockReceived /\ v.Deviation < 100 /\ clockPeriod.num = 0)
    /\ UNCHANGED <<v, schedVars, driftVars, scaleVars, clockVars, stormVars, loadVars, normVars, zcVars, quantVars, pitchVars>>

InitLambda ==
    /\ v \in {[Defaults EXCEPT !.CvClock = 1, !.Deviation = dev] : dev \in DeviationValues}
    /\ Constructed
    /\ ConstructedDrifters
    /\ ConstructedRest

NextLambda == ClockTick \/ TriggerLambda \/ TriggerLambdaEngine
SpecLambda == InitLambda /\ [][NextLambda]_vars

(* ------------------------------------------------------------------ *)
(* Pitch quantization                                                  *)
(* ------------------------------------------------------------------ *)
(* the semitone values quantized: quarters of a semitone up to         *)
(* MaxQuarters either way                                              *)
MaxQuarters == 60
QuantInputs == {q * (PitchOne \div 4) : q \in (0 - MaxQuarters) .. MaxQuarters}

(* one call of quantizePitchToScale *)
Quantize ==
    /\ ~quantDone
    /\ quantOut' = quantizePitchToScale(quantIn, quantScale)
    /\ quantDone' = TRUE
    /\ UNCHANGED <<quantIn, quantScale>>
    /\ UNCHANGED <<v, schedVars, driftVars, scaleVars, clockVars, stormVars, loadVars,
                   normVars, zcVars, lamVars, pitchVars>>

InitQuant ==
    /\ v = Defaults
    /\ Constructed /\ ConstructedDrifters
    /\ \A d \in Drifters : nextGrainTime[d] = 0
    /\ ScaleIdle /\ ClockZero /\ StormZero /\ LoadedIdle
    /\ NormUnity /\ ZcIdle /\ LamNone /\ PitchIdle
    /\ quantIn \in QuantInputs
    /\ quantScale \in ScaleIndices
    /\ quantOut = 0
    /\ quantDone = FALSE
NextQuant == Quantize
SpecQuant == InitQuant /\ [][NextQuant]_vars

(* the pitch CV (cvPitch * 12, line 854) and the entropy jitter        *)
(* (within 2 semitones, line 1045) of a grain, in model units          *)
PitchMods == {0 - 18, 0, 30}
Jitters == {0 - 24, 0 - 7, 0, 13}
PitchValues == {0 - kPitchMax, 0, 7}

(* the drifter, the parameters, the CV and the jitter a grain's pitch  *)
(* is computed from                                                    *)
PitchInputs ==
    [d : ScatterDrifters, pitch : PitchValues, pitchMod : PitchMods,
     scatter : 0 .. kScatterMax, jitter : Jitters, scaleIndex : ScaleIndices]

(* the pitch of one new grain, by the scale-aware computation and by   *)
(* lines 1037-1045 of src/drifters.cpp                                 *)
ComputePitch ==
    /\ ~pitchDone
    /\ pitchSemis' = ScalePitchSemis(pitchArgs.d, pitchArgs.pitch, pitchArgs.pitchMod,
                                     pitchArgs.scatter, pitchArgs.jitter, pitchArgs.scaleIndex)
    /\ rawSemis' = RawPitchSemis(pitchArgs.d, pitchArgs.pitch, pitchArgs.pitchMod,
                                 pitchArgs.scatter, pitchArgs.jitter)
    /\ pitchDone' = TRUE
    /\ UNCHANGED pitchArgs
    /\ UNCHANGED <<v, schedVars, driftVars, scaleVars, clockVars, stormVars, loadVars,
                   normVars, zcVars, lamVars, quantVars>>

InitPitch ==
    /\ v = Defaults
    /\ Constructed /\ ConstructedDrifters
    /\ \A d \in Drifters : nextGrainTime[d] = 0
    /\ ScaleIdle /\ ClockZero /\ StormZero /\ LoadedIdle
    /\ NormUnity /\ ZcIdle /\ LamNone /\ QuantIdle
    /\ pitchArgs \in PitchInputs
    /\ pitchSemis = 0
    /\ rawSemis = 0
    /\ pitchDone = FALSE
NextPitch == ComputePitch
SpecPitch == InitPitch /\ [][NextPitch]_vars

InitLoad ==
    /\ \E l \in {0, 1}, r \in {0, 1} : v = [Defaults EXCEPT !.OutputLMode = l, !.OutputRMode = r]
    /\ Constructed /\ ConstructedDrifters
    /\ \A d \in Drifters : nextGrainTime[d] = 0
    /\ ScaleIdle /\ ClockZero /\ StormZero /\ LoadZero /\ ConstructedMore

NextLoad == SetSample \/ CardChange \/ Step \/ LoaderWrite \/ LoadComplete
SpecLoad == InitLoad /\ [][NextLoad]_vars

(* ------------------------------------------------------------------ *)
(* Properties                                                          *)
(* ------------------------------------------------------------------ *)

(* a step of Tick: the parameter actions change v, Tick never does *)
IsTick == v' = v

(* the clock input rises through the threshold in this tick *)
RisingEdge == prevClock' > kClockThreshold /\ prevClock <= kClockThreshold

ActiveCount(gr) == Cardinality({g \in Slots : gr[g].active})
PoolFull(gr) == \A g \in Slots : gr[g].active
Spawned(sl, d) == sl[d] < kMaxTotalGrains
Blended == v.Deviation > 0 /\ v.Deviation < 100

(* C1: the number of active grains never exceeds the pool size, and a  *)
(* tick that starts with every slot active spawns nothing, raises no   *)
(* pulse and overwrites no slot: every slot keeps its owner and its    *)
(* phase increment, and its phase is the old one or the old one        *)
(* advanced by the renderer.                                           *)
C1_PoolCapacity ==
    /\ [](ActiveCount(grains) <= kMaxTotalGrains)
    /\ [][(IsTick /\ PoolFull(grains)) =>
            /\ \A d \in Drifters : ~Spawned(slot', d)
            /\ cvOutPulse' = 0
            /\ \A g \in Slots :
                /\ grains'[g].drifterIndex = grains[g].drifterIndex
                /\ grains'[g].phaseDelta = grains[g].phaseDelta
                /\ grains'[g].phase \in {grains[g].phase,
                                         grains[g].phase + grains[g].phaseDelta}]_vars

(* C1 witness: drifter 0 triggered and found no free slot, so the pool *)
(* was full when the tick began                                        *)
C1_Witness == shouldTrigger[0] /\ ~Spawned(slot, 0)

(* C2: no active grain has phase >= 1 at the end of a tick; a grain    *)
(* that stays active never loses phase; a grain that turns inactive    *)
(* has phase >= 1.                                                     *)
C2_GrainLifecycle ==
    /\ [](\A g \in Slots : grains[g].active => grains[g].phase < PhaseOne)
    /\ [][\A g \in Slots :
            /\ (grains[g].active /\ grains'[g].active) =>
                   grains'[g].phase >= grains[g].phase
            /\ (grains[g].active /\ ~grains'[g].active) =>
                   grains'[g].phase >= PhaseOne]_vars

(* C2 witness: a grain was deactivated by a step that carried its      *)
(* phase past 1.0, while another grain is still active                 *)
C2_Witness ==
    /\ \E g \in Slots : ~grains[g].active /\ grains[g].phase > PhaseOne
    /\ \E g \in Slots : grains[g].active /\ grains[g].phase > 0

(* C3 (as claimed): every grain that is active when a tick begins      *)
(* advances in that tick.                                              *)
C3_AdvancesEveryTick ==
    [][IsTick => \A g \in Slots :
          grains[g].active => grains'[g].phase = grains[g].phase + grains[g].phaseDelta]_vars

(* C4 (as claimed): in clock-locked mode every drifter spawns a grain  *)
(* on exactly the ticks with a clock rising edge.                      *)
C4_GrainOnEveryEdge ==
    [][(IsTick /\ clockReceived' /\ v.Deviation = 0) =>
          \A d \in Drifters : Spawned(slot', d) <=> RisingEdge]_vars

(* C4 (amended): in clock-locked mode every drifter triggers on        *)
(* exactly the ticks with a clock rising edge; the triggers of a tick  *)
(* are served in drifter order while a free slot is left, so           *)
(* min(triggers, free slots) grains are spawned and the rest dropped.  *)
C4_TriggerOnEveryEdge ==
    [][(IsTick /\ clockReceived' /\ v.Deviation = 0) =>
          LET trig == {d \in Drifters : shouldTrigger'[d]}
              born == {d \in Drifters : Spawned(slot', d)}
              free == kMaxTotalGrains - ActiveCount(grains)
          IN  /\ \A d \in Drifters : shouldTrigger'[d] <=> RisingEdge
              /\ born \subseteq trig
              /\ Cardinality(born) = Min(Cardinality(trig), free)
              /\ \A d \in born : \A e \in trig : e < d => e \in born]_vars

(* C4 witness: a clock edge in locked mode on which every drifter      *)
(* triggered, one got a slot and one was dropped                       *)
C4_Witness ==
    /\ clockReceived /\ v.Deviation = 0 /\ clockEdge
    /\ \A d \in Drifters : shouldTrigger[d]
    /\ \E d \in Drifters : Spawned(slot, d)
    /\ \E d \in Drifters : ~Spawned(slot, d)

(* C5: in blended mode a clock rising edge triggers every drifter in   *)
(* the same tick and resets its timer.                                 *)
C5_EdgeAlwaysTriggers ==
    [][(IsTick /\ clockReceived' /\ Blended /\ RisingEdge) =>
          \A d \in Drifters : shouldTrigger'[d] /\ timeSinceGrain'[d] = 0]_vars

(* C5 witness: a clock edge has just been detected in blended mode and *)
(* every drifter triggered on it, none through a random trial          *)
C5_Witness ==
    /\ clockReceived /\ Blended /\ clockEdge
    /\ \A d \in Drifters : shouldTrigger[d] /\ trial[d] = "none"

(* C6 (as claimed): after a failed random trial a drifter does not     *)
(* trigger on the next tick unless a clock edge arrives.               *)
C6_OneTrialPerInterval ==
    [][(IsTick /\ clockReceived' /\ Blended /\ ~RisingEdge) =>
          \A d \in Drifters : trial[d] = "fail" => ~shouldTrigger'[d]]_vars

C8_PoissonTimer ==
    [][\A d \in Drifters :
          LET tsg == Min(timeSinceGrain[d] + 1, TsgCap)
          IN  /\ (IsTick /\ (~clockReceived' \/ v.Deviation = 100)) =>
                    (shouldTrigger'[d] <=> tsg >= nextGrainTime[d])
              /\ (IsTick /\ shouldTrigger'[d]) =>
                    (timeSinceGrain'[d] = 0 /\ nextGrainTime'[d] \in IntervalValues)
              /\ (IsTick /\ ~shouldTrigger'[d]) =>
                    (timeSinceGrain'[d] = tsg /\ nextGrainTime'[d] = nextGrainTime[d])
              /\ ~IsTick =>
                    (timeSinceGrain'[d] = timeSinceGrain[d]
                        /\ nextGrainTime'[d] = nextGrainTime[d])]_vars

(* C8 witness: free-running with a clock patched: one drifter has just *)
(* triggered, the other is waiting inside its interval                 *)
C8_Witness ==
    /\ v.Deviation = 100 /\ clockReceived
    /\ shouldTrigger[0] /\ timeSinceGrain[0] = 0
    /\ ~shouldTrigger[1] /\ timeSinceGrain[1] > 0
    /\ timeSinceGrain[1] < nextGrainTime[1]

(* C16 (as claimed): the pulse output is 5 V on exactly the ticks in   *)
(* which at least one drifter triggered, and 0 on every other tick.    *)
C16_PulseOnEveryTrigger ==
    [][IsTick => (cvOutPulse' = 5 <=> \E d \in Drifters : shouldTrigger'[d])]_vars

(* C16 (amended): the pulse output is 5 V on exactly the ticks in      *)
(* which at least one trigger found a free slot and started a grain,   *)
(* and 0 on every other tick, those with only dropped triggers         *)
(* included; the pulse flag is clear after every tick.                 *)
C16_PulseOnSpawn ==
    /\ [](pulseOut = FALSE /\ cvOutPulse \in {0, 5})
    /\ [][IsTick => (cvOutPulse' = 5 <=> \E d \in Drifters : Spawned(slot', d))]_vars

(* C16 witness: a tick in which a drifter triggered, every trigger was *)
(* dropped and no pulse was put out                                    *)
C16_Witness ==
    /\ \E d \in Drifters : shouldTrigger[d]
    /\ \A d \in Drifters : ~Spawned(slot, d)
    /\ cvOutPulse = 0

(* a step of ClockTick *)
IsClockTick == v' = v

(* C19 (as claimed): a rising edge is detected on exactly the ticks on *)
(* which the clock input is above the threshold and was at or below it *)
(* on the tick before; on every edge after the first the stored clock  *)
(* period becomes the time elapsed since the edge before, and it       *)
(* changes on no other tick.                                           *)
C19_PeriodIsElapsed ==
    [][IsClockTick =>
          /\ clockEdge' <=> RisingEdge
          /\ (RisingEdge /\ clockReceived) =>
                 clockPeriod'.num = clockPhase * clockPeriod'.den
          /\ ~(RisingEdge /\ clockReceived) => clockPeriod' = clockPeriod]_vars

(* a step of StormTick *)
IsStormTick == v' = v

(* C13 (as claimed): the storm level is 1.0 after every tick with the  *)
(* gate high, strictly lower after every tick with the gate low, and   *)
(* always in [0, 1]; the smoothed entropy is always in [0, 1].         *)
C13_StormStrictDecay ==
    /\ [](stormLevel \in 0 .. EntropyOne /\ entropySmooth \in 0 .. EntropyOne)
    /\ [][IsStormTick =>
            /\ stormGate' => stormLevel' = EntropyOne
            /\ ~stormGate' => stormLevel' < stormLevel]_vars

(* C13 (amended): the storm level is 1.0 after every tick with the     *)
(* gate high; a tick with the gate low never raises it, lowers it      *)
(* strictly while it is above the lowest unit (the normal float range) *)
(* and leaves it at 0 once it is 0; it is always in [0, 1]; the        *)
(* smoothed entropy is always in [0, 1].                               *)
C13_StormDecay ==
    /\ [](stormLevel \in 0 .. EntropyOne /\ entropySmooth \in 0 .. EntropyOne)
    /\ [][IsStormTick =>
            /\ stormGate' => stormLevel' = EntropyOne
            /\ ~stormGate' => stormLevel' <= stormLevel
            /\ (~stormGate' /\ stormLevel > 1) => stormLevel' < stormLevel
            /\ (~stormGate' /\ stormLevel = 0) => stormLevel' = 0]_vars

(* C13 witness: the storm has decayed all the way to 0 with the gate   *)
(* low while entropy CV and the Entropy parameter together ask for     *)
(* more than 1.0 and the smoothed entropy has reached the cap          *)
C13_Witness ==
    /\ ~stormGate /\ stormLevel = 0
    /\ v.Entropy = 100 /\ entropySmooth = EntropyOne

(* a step of DriftTick *)
IsDriftTick == frame' # frame

(* tolerance on the window, two position units *)
PosEps == 2 * kPosMin

(* C9 (as claimed): after every tick every drifter's position lies in  *)
(* [anchor - wander, anchor + wander] intersected with [0.001, 0.999], *)
(* up to the tolerance.                                                *)
C9_PositionInWindow ==
    [][IsDriftTick => \A d \in Drifters :
          /\ position'[d] >= Max(MinPos(anchorSmooth', v) - PosEps, kPosMin)
          /\ position'[d] <= Min(MaxPos(anchorSmooth', v) + PosEps, kPosMax)]_vars

(* C10 (as claimed): a tick whose integrated position is below         *)
(* anchor - wander ends with the position back at or above that        *)
(* boundary, a velocity that is not negative and driftDirection +1; a  *)
(* tick whose integrated position is above anchor + wander ends with   *)
(* the position at or below it, a velocity that is not positive and    *)
(* driftDirection -1; driftDirection is -1 or +1 and is unchanged by   *)
(* a tick that crosses neither boundary.                               *)
C10_BounceInward ==
    [][IsDriftTick => \A d \in Drifters :
          LET minPos == MinPos(anchorSmooth', v)
              maxPos == MaxPos(anchorSmooth', v)
          IN  /\ integrated'[d] < minPos =>
                    /\ position'[d] >= minPos
                    /\ velocity'[d] >= 0
                    /\ driftDirection'[d] = 1
              /\ integrated'[d] > maxPos =>
                    /\ position'[d] <= maxPos
                    /\ velocity'[d] <= 0
                    /\ driftDirection'[d] = -1
              /\ driftDirection'[d] \in {-1, 1}
              /\ (integrated'[d] >= minPos /\ integrated'[d] <= maxPos) =>
                    driftDirection'[d] = driftDirection[d]]_vars

(* C20: for every scale but the chromatic one and every degree,        *)
(* degreeToSemitones is 12 * floor(degree / n) + notes[degree mod n]   *)
(* with the remainder in 0..n-1; it gives 12 for degree 7 and -1 for   *)
(* degree -1 in Ionian; it rises by an octave every n degrees; for the *)
(* chromatic scale it returns the degree.                              *)
C20_DegreeToSemitones ==
    LET n == scales[scaleIndex + 1].noteCount
    IN  /\ scaleIndex # 0 =>
              /\ semitones = 12 * (degree \div n) + scales[scaleIndex + 1].notes[(degree % n) + 1]
              /\ degreeToSemitones(degree + n, scaleIndex) = semitones + 12
        /\ scaleIndex = 0 => semitones = degree
        /\ (scaleIndex = kScaleIonian /\ degree = 7) => semitones = 12
        /\ (scaleIndex = kScaleIonian /\ degree = -1) => semitones = -1

(* C20 witness: a negative degree converted in a five-note scale, into *)
(* the octave below                                                    *)
C20_Witness ==
    /\ degree < -5 /\ scales[scaleIndex + 1].noteCount = 5
    /\ semitones < -12

(* ------------------------------------------------------------------ *)
(* Silent block and sample loading                                     *)
(* ------------------------------------------------------------------ *)
(* what step() added to an output bus at a frame: the bus itself when  *)
(* the bus is replaced, the difference from what it held when the      *)
(* signal is added to it                                               *)
ContributionL(f) == IF v.OutputLMode = 1 THEN busOut["outL"][f] ELSE busOut["outL"][f] - BusBefore
ContributionR(f) == IF v.OutputRMode = 1 THEN busOut["outR"][f] ELSE busOut["outR"][f] - BusBefore

(* C14: after a step() made with no sample loaded or with a sample of  *)
(* fewer than 100 frames, every frame of the block has a zero left and *)
(* right output and zero on the Position and Pulse outputs, whatever   *)
(* the output modes are.                                               *)
C14_SilentBlock ==
    (lastEvent = "step" /\ (~sampleLoaded \/ sampleLength < 100)) =>
        \A f \in Frames :
            /\ ContributionL(f) = 0
            /\ ContributionR(f) = 0
            /\ busOut["cvOutPos"][f] = 0
            /\ busOut["cvOutPulse"][f] = 0

(* a block processed with a loaded sample of 50 frames, the left       *)
(* output added to its bus and the right one replacing it              *)
C14_Witness ==
    /\ lastEvent = "step"
    /\ sampleLoaded
    /\ sampleLength = 50
    /\ v.OutputLMode = 0
    /\ v.OutputRMode = 1

(* C17 as stated: while a sample is loaded, no step changes the part   *)
(* of the buffer that lies inside the current sample length (the       *)
(* loader writes only before its completion is reported).              *)
C17_OldSampleUntouched ==
    [][sampleLoaded =>
           \A c \in Chunks :
               c * ChunkFrames < sampleLength => sampleBufferL'[c] = sampleBufferL[c]]_vars

(* C18: a step that changes the sample length, the source sample rate  *)
(* or the loaded flag is a load completion reporting success; every    *)
(* other step (a failed completion, a step() whose load could not be   *)
(* started, a card change) leaves the three of them as they were.      *)
C18_OnlySuccessApplies ==
    [][(<<sampleLength, sourceSampleRate, sampleLoaded>>' # <<sampleLength, sourceSampleRate, sampleLoaded>>)
           => lastEvent' = "callbackSuccess"]_vars

(* a completion has reported failure for a load of another file while  *)
(* the long sample was loaded, and the long sample is still current    *)
C18_Witness ==
    /\ lastEvent = "callbackFailure"
    /\ sampleLoaded
    /\ sampleLength = kMaxSampleFrames
    /\ pendingSampleLength # sampleLength

(* ------------------------------------------------------------------ *)
(* Boredom and repulsion                                               *)
(* ------------------------------------------------------------------ *)
(* C11: after every tick boredom is in [0,1]; a tick that ends more    *)
(* than 3% away from lastSignificantPos sets boredom to 0 and          *)
(* lastSignificantPos to the position; any other tick leaves           *)
(* lastSignificantPos alone and raises boredom by a twentieth per      *)
(* second (one tick), up to 1.0, so that 20 seconds of confinement     *)
(* take it from 0 to 1.0.                                              *)
C11_Boredom ==
    [][IsDriftTick => \A d \in Drifters :
          LET movedFar == Abs(position'[d] - lastSignificantPos[d]) * 100 > 3 * PosScale
          IN  /\ boredom'[d] >= 0 /\ boredom'[d] <= BoredomOne
              /\ movedFar => (boredom'[d] = 0 /\ lastSignificantPos'[d] = position'[d])
              /\ ~movedFar =>
                    /\ lastSignificantPos'[d] = lastSignificantPos[d]
                    /\ boredom'[d] >= boredom[d]
                    /\ boredom'[d] * 20 = Min(BoredomOne * 20, boredom[d] * 20 + BoredomOne)]_vars

(* 20 ticks from construction without drift: drifter 0 never left its  *)
(* constructed position and its boredom is 1.0                         *)
C11_Witness ==
    /\ frame = 20
    /\ v.Drift = 0
    /\ position[0] = lastSignificantPos[0]
    /\ boredom[0] = BoredomOne
    /\ position[1] = (40 * PosScale) \div 100

(* the position of drifter o as iteration d of the drifter loop of a   *)
(* tick reads it, and the separation it computes                       *)
SeenInTick(d, o) == IF o < d THEN position'[o] ELSE position[o]
DiffInTick(d, o) == position[d] - SeenInTick(d, o)
(* the other drifters that are not at the very position of d *)
Others(d) == {o \in Drifters : o # d /\ DiffInTick(d, o) # 0}

(* C12 as claimed: a drifter gets a repulsion only with another        *)
(* drifter closer than 5% of the wander range (maxPos - minPos); with  *)
(* boredom 0 it points away from the other drifter; below full boredom *)
(* its magnitude is 0.00001 / separation times (1 - boredom); at full  *)
(* boredom it points toward the other drifter.                         *)
C12_RepulsionAsClaimed ==
    [][IsDriftTick => \A d \in Drifters :
          LET inside == {o \in Others(d) : Abs(DiffInTick(d, o)) * 100 < 5 * (MaxPos(anchorSmooth', v) - MinPos(anchorSmooth', v))}
          IN  /\ repulsion'[d] # 0 => inside # {}
              /\ \A o \in Others(d) : (Others(d) = {o} /\ repulsion'[d] # 0) =>
                    LET away == IF DiffInTick(d, o) > 0 THEN 1 ELSE -1
                    IN  /\ boredom[d] = 0 => repulsion'[d] * away > 0
                        /\ boredom[d] = BoredomOne => repulsion'[d] * away < 0
                        /\ boredom[d] < BoredomOne =>
                               repulsion'[d] * away =
                                   Scaled((10 * PosScale) \div Abs(DiffInTick(d, o)),
                                          BoredomOne - boredom[d], BoredomOne)]_vars

(* C12: a drifter gets a repulsion only with another drifter closer    *)
(* than 5% of the sample length; with a single other drifter closer    *)
(* than that and farther than 0.1%, the repulsion is                   *)
(* 0.00001 / separation times (1 - 1.05 * boredom): away from the      *)
(* other drifter while boredom is below 1 / 1.05, toward it above, at  *)
(* a twentieth of the strength at full boredom.                        *)
C12_Repulsion ==
    [][IsDriftTick => \A d \in Drifters :
          LET inside == {o \in Others(d) : Abs(DiffInTick(d, o)) * 100 < 5 * PosScale}
          IN  /\ repulsion'[d] # 0 => inside # {}
              /\ \A o \in inside : (inside = {o} /\ Abs(DiffInTick(d, o)) * 1000 > PosScale) =>
                    LET away == IF DiffInTick(d, o) > 0 THEN 1 ELSE -1
                        strength == (10 * PosScale) \div Abs(DiffInTick(d, o))
                    IN  /\ repulsion'[d] * away = Scaled(strength, 100 * BoredomOne - 105 * boredom[d], 100 * BoredomOne)
                        /\ boredom[d] * 105 < BoredomOne * 100 => repulsion'[d] * away > 0
                        /\ boredom[d] * 105 > BoredomOne * 100 => repulsion'[d] * away < 0
                        /\ boredom[d] = BoredomOne => repulsion'[d] * away = -Scaled(strength, 1, 20)]_vars

(* the first tick of two fully bored drifters 4% apart has drawn       *)
(* drifter 0, the one on the left, to the right                        *)
C12_Witness ==
    /\ frame = 1
    /\ v.Drift = 0
    /\ boredom[0] = BoredomOne
    /\ position[1] - position[0] = (4 * PosScale) \div 100
    /\ repulsion[0] > 0
    /\ repulsion[1] < 0

(* ------------------------------------------------------------------ *)
(* Dropped triggers, the render limit and slot allocation              *)
(* ------------------------------------------------------------------ *)
(* the drifter whose trigger of this tick took slot g, if any *)
TakenBy(g) == {d \in Drifters : shouldTrigger'[d] /\ slot'[d] = g}

(* the pool between the drifter loop and the render loop of a tick, as *)
(* the claims describe it: the slot a trigger took has phase 0, the    *)
(* drifter's index and the filter state it had, every other slot is    *)
(* as before the tick                                                  *)
Allocated ==
    [g \in Slots |->
        IF TakenBy(g) # {}
        THEN [active |-> TRUE, phase |-> 0, phaseDelta |-> phaseDeltaOf(v.Density),
              drifterIndex |-> CHOOSE d \in TakenBy(g) : TRUE, filter |-> grains[g].filter]
        ELSE grains[g]]

(* C23's dropped trigger of drifter d in the tick just made *)
Dropped(d) == shouldTrigger[d] /\ slot[d] = kMaxTotalGrains

(* C23: a tick in which drifter d triggers and finds no free slot      *)
(* leaves the pool as the render loop alone makes it, resets           *)
(* timeSinceGrain[d] to 0 and draws a new interval, as a trigger that  *)
(* found a slot does; on the tick after it the drifter triggers again  *)
(* only if that new interval has already elapsed or a clock edge       *)
(* arrives, never because of the dropped request.                      *)
C23_DroppedTrigger ==
    [][IsTick => \A d \in Drifters :
          /\ shouldTrigger'[d] =>
                /\ timeSinceGrain'[d] = 0
                /\ nextGrainTime'[d] \in IntervalValues
          /\ (shouldTrigger'[d] /\ slot'[d] = kMaxTotalGrains) =>
                \A g \in Slots : TakenBy(g) = {} =>
                    grains'[g] = RenderGrains(Allocated, v)[g]
          /\ (Dropped(d) /\ ~clockEdge' /\ nextGrainTime[d] > 1) => ~shouldTrigger'[d]]_vars

(* a trigger has just been dropped: the pool is full, the drifter's    *)
(* timer is at 0 and no pulse was raised                               *)
C23_Witness ==
    /\ \E d \in Drifters : Dropped(d) /\ timeSinceGrain[d] = 0 /\ nextGrainTime[d] > 1
    /\ \A d \in Drifters : shouldTrigger[d] => slot[d] = kMaxTotalGrains
    /\ cvOutPulse = 0

(* the active slots of the pool gr that are among its first            *)
(* kMaxActiveGrains active slots                                       *)
LowestActive(gr) ==
    {g \in Slots : gr[g].active /\
                   Cardinality({h \in Slots : h <= g /\ gr[h].active}) <= kMaxActiveGrains}

(* C24: in every tick the grains added to the mix and advanced are the *)
(* lowest-indexed active slots, at most kMaxActiveGrains of them;      *)
(* every other active slot ends the tick exactly as the drifter loop   *)
(* left it (phase, filter state, active flag) and is not in the mix.   *)
C24_RenderLimit ==
    [][IsTick =>
          /\ Cardinality(mixed') <= kMaxActiveGrains
          /\ mixed' = LowestActive(Allocated)
          /\ \A g \in Slots :
                /\ g \in mixed' => grains'[g].phase = Allocated[g].phase + Allocated[g].phaseDelta
                /\ (Allocated[g].active /\ g \notin mixed') => grains'[g] = Allocated[g]]_vars

(* a tick has rendered as many grains as the limit allows and left     *)
(* another active grain at phase 0, out of the mix                     *)
C24_Witness ==
    /\ Cardinality(mixed) = kMaxActiveGrains
    /\ \E g \in Slots : grains[g].active /\ g \notin mixed /\ grains[g].phase = 0

(* C25: a trigger of drifter d that finds a slot takes the lowest slot *)
(* that is inactive at that point of the drifter loop, which no other  *)
(* drifter takes in the same tick; the slot enters the render loop     *)
(* active, at phase 0, with drifter index d and the filter state it    *)
(* had; the slots no trigger took enter the render loop as they were.  *)
C25_Allocation ==
    [][IsTick =>
          /\ \A d \in Drifters : (shouldTrigger'[d] /\ slot'[d] < kMaxTotalGrains) =>
                /\ ~grains[slot'[d]].active
                /\ \A h \in Slots : h < slot'[d] =>
                       (grains[h].active \/ \E e \in Drifters : e < d /\ shouldTrigger'[e] /\ slot'[e] = h)
                /\ TakenBy(slot'[d]) = {d}
                /\ Allocated[slot'[d]].drifterIndex = d
          /\ \A d \in Drifters : ~shouldTrigger'[d] => slot'[d] = kMaxTotalGrains
          /\ grains' = RenderGrains(Allocated, v)]_vars

(* a trigger has taken a slot whose filter had run for an earlier      *)
(* grain; the new grain was not rendered in this tick, so the filter   *)
(* state is the earlier grain's                                        *)
C25_Witness ==
    \E d \in Drifters :
        /\ shouldTrigger[d] /\ slot[d] < kMaxTotalGrains
        /\ grains[slot[d]].active /\ grains[slot[d]].phase = 0
        /\ grains[slot[d]].drifterIndex = d
        /\ grains[slot[d]].filter = 1

(* ------------------------------------------------------------------ *)
(* Outstanding loads                                                   *)
(* ------------------------------------------------------------------ *)
(* C28 as stated: at most one read request is outstanding, and when a  *)
(* completion has just reported success the length and rate it applied *)
(* are those of a request that is not newer than the one completed     *)
(* (no request is still outstanding at that moment).                   *)
C28_OneOutstanding ==
    /\ Len(inflight) <= 1
    /\ lastEvent = "callbackSuccess" => inflight = <<>>

(* C29, as the state it forbids: with the card in, a valid file        *)
(* selected and step() between blocks, either a load request is still  *)
(* flagged (pendingSampleLoad) or the load started last was of the     *)
(* selected sample; otherwise the selection has been changed and       *)
(* nothing is left that will ever start its load.                      *)
C29_SelectionNotLost ==
    (stepPc = "idle" /\ sdMounted /\ cardMounted /\ FileFrames(v.Sample) # 0 /\ ~pendingSampleLoad)
        => wavRequestSample = v.Sample

(* ------------------------------------------------------------------ *)
(* Normalization                                                       *)
(* ------------------------------------------------------------------ *)
IsNormTick == normFrame' # normFrame

(* t is 1 / sqrt(n) to the model's resolution, 1 for n <= 1 *)
IsInverseRoot(t, n) ==
    IF n <= 1 THEN t = NormOne
    ELSE t * t * n <= NormOne * NormOne /\ (t + 1) * (t + 1) * n > NormOne * NormOne

(* 1 / sqrt(n) for every count of active grains *)
InverseRoot == [n \in 0 .. MaxNormGrains |-> CHOOSE t \in 0 .. NormOne : IsInverseRoot(t, n)]

(* C26: after every tick smoothNorm is in [0.1, 1]; with n the active  *)
(* grains counted in the tick and t = 1 / sqrt(n) (1 for n <= 1),      *)
(* smoothNorm ends the tick between its old value and t, no farther    *)
(* from t than it was, and strictly nearer when it was more than 0.05  *)
(* away.                                                               *)
C26_SmoothNorm ==
    [][IsNormTick =>
          /\ smoothNorm' * 10 >= NormOne /\ smoothNorm' <= NormOne
          /\ LET t == InverseRoot[activeGrains'] IN
                /\ Abs(t - smoothNorm') <= Abs(t - smoothNorm)
                /\ smoothNorm <= t => (smoothNorm <= smoothNorm' /\ smoothNorm' <= t)
                /\ smoothNorm >= t => (smoothNorm >= smoothNorm' /\ smoothNorm' >= t)
                /\ Abs(t - smoothNorm) * 20 > NormOne => Abs(t - smoothNorm') < Abs(t - smoothNorm)]_vars

(* a tick with more than one active grain has taken smoothNorm down    *)
(* from 1.0 toward 1 / sqrt(n)                                         *)
C26_Witness ==
    /\ normFrame = 1
    /\ activeGrains > 1
    /\ smoothNorm < NormOne
    /\ smoothNorm > TargetNorm(activeGrains)
    /\ smoothNorm > 9900

(* ------------------------------------------------------------------ *)
(* Zero-crossing search                                                *)
(* ------------------------------------------------------------------ *)
InsideSample(i) == i >= 0 /\ i < zcLen

(* C27: for every accepted sample length (>= 100 frames), every start  *)
(* position inside the sample and the onset radius of 256, the search  *)
(* reads only buffer indices in [0, sampleLen) and returns an index in *)
(* [0, sampleLen).                                                     *)
C27_SearchInsideSample ==
    /\ \A i \in zcRead : InsideSample(i)
    /\ zcPc = "done" => InsideSample(zcResult)

(* ------------------------------------------------------------------ *)
(* The rate of the exponential draw                                    *)
(* ------------------------------------------------------------------ *)
FinitePositive(r) == r.den > 0 /\ r.num > 0

(* C30: in both engine variants the rate passed to the exponential     *)
(* draw at a trigger is finite and strictly positive, after a single   *)
(* clock edge too, and no division by zero occurs.                     *)
C30_LambdaFinitePositive ==
    lambdaBy # "none" => (FinitePositive(lambda) /\ ~divByZero)

(* ------------------------------------------------------------------ *)
(* Pitch quantization                                                  *)
(* ------------------------------------------------------------------ *)
(* the pitches of the scale in the octave that holds x *)
InOctaveOf(x, notes) ==
    {(12 * o + notes[k]) * PitchOne :
        o \in {oo \in (0 - 3) .. 3 : oo * OctaveUnits <= x /\ x < (oo + 1) * OctaveUnits},
        k \in 1 .. Len(notes)}

(* C21: quantizing to a non-chromatic scale returns the note of the    *)
(* scale nearest to the value within the value's octave, plus the      *)
(* octave offset; in Ionian quantize(2.5) = 2 and quantize(3.0) = 4.   *)
C21_QuantizeNearest ==
    quantDone =>
    /\ quantScale # 0 =>
          LET inScale == InOctaveOf(quantIn, scales[quantScale + 1].notes)
          IN  /\ quantOut \in inScale
              /\ \A p \in inScale : Abs(quantIn - quantOut) <= Abs(quantIn - p)
    /\ (quantScale = kScaleIonian /\ quantIn * 2 = 5 * PitchOne) => quantOut = 2 * PitchOne
    /\ (quantScale = kScaleIonian /\ quantIn = 3 * PitchOne) => quantOut = 4 * PitchOne

(* quantize(3.0) in Ionian has returned 4 *)
C21_Witness ==
    quantDone /\ quantScale = kScaleIonian /\ quantIn = 3 * PitchOne /\ quantOut = 4 * PitchOne

====
